---- MODULE Spec2Model ----
(***************************************************************************)
(* A model of the OPAQUE core of bytemare/opaque: the Configuration and    *)
(* its 8-byte encoding, the 3DH key exchange of internal/ake/3dh.go, the   *)
(* ake.Server wrapper, and the registration and login flows around them.   *)
(*                                                                         *)
(* Byte strings are sequences of elements.  An element is a tagged tuple   *)
(* whose first component is a string: <<"b", n>> is the plain byte n and   *)
(* <<"D", d1, d2>> one output block of a hash, MAC, KDF or memory-hard     *)
(* function, a two-word digest of the primitive's inputs.  An encoded      *)
(* scalar, an encoded group element and an XOR-masked block are one        *)
(* element each; lengths are counted in elements.  Group arithmetic of     *)
(* the AKE is real: an element is its discrete logarithm modulo the group  *)
(* order, so that scalar multiplication commutes as in the code's group.   *)
(***************************************************************************)
EXTENDS Integers, Sequences, FiniteSets, TLC

VARIABLES
    \* ---- Configuration (opaque.Configuration and its encoding)
    cfg,        \* the Configuration under test
    input,      \* a byte string handed to DeserializeConfiguration
    ser,        \* result of cfg.Serialize()
    des,        \* result of DeserializeConfiguration
    hnd,        \* result of cfg.Client() / cfg.Server()
    \* ---- registration and login
    conf,       \* Configuration the two parties run
    creds,      \* identities and application info of the run
    reg,        \* registration: client state, messages, stored ClientRecord
    cl,         \* login client handle
    sv,         \* login server handle (ake.Server and its Core)
    net,        \* KE1, KE2, KE3 in flight
    adv,        \* what the network altered
    mem,        \* buffers allocated by core3DH, per party
    \* ---- two runs on the same inputs
    det,        \* inputs, and per run the values drawn and the outputs
    \* ---- login sessions sharing one server
    ses,        \* long-term state, Hash objects, and per session its handles
    \* ---- the key exchange on its own
    dh,         \* key pairs of both sides and the IKM each side computed
    \* ---- the labelled expansion on its own
    hk,         \* label, context, length and the HKDF info built from them
    \* ---- core3DH on its own
    tx,         \* inputs of both calls and what each call returned
    \* ---- cryptInfo on its own
    ci,         \* key, info, and the outputs of cryptInfo applied in turn
    \* ---- core3DH on keys that may not decode
    dk          \* the keys handed in, the running hash, and what was returned

cfgVars == <<cfg, input, ser, des, hnd>>
runVars == <<conf, creds, reg, cl, sv, net, adv, mem>>
auxVars == <<det, ses, dh, hk, tx, ci, dk>>
vars == <<cfg, input, ser, des, hnd, conf, creds, reg, cl, sv, net, adv, mem, det, ses, dh, hk, tx, ci, dk>>

-----------------------------------------------------------------------------
(* Bounds of the model *)

\* longest byte string handed to DeserializeConfiguration beyond 8 bytes
MaxExtraLen == 1
\* number of distinct passwords
NumPasswords == 2
\* longest application info the server attaches to KE2
MaxInfoLen == 2
\* number of alterations the network may make during one login
MaxTamper == 1

-----------------------------------------------------------------------------
(* Identifiers *)

Internal == 1
External == 2

RistrettoSha512 == 1
P256Sha256 == 3
P384Sha512 == 4
P521Sha512 == 5

SupportedGroups == {RistrettoSha512, P256Sha256, P384Sha512, P521Sha512}
\* hash.SHA256, hash.SHA512 and mhf.Scrypt as the vectors use them
SupportedHashes == {1, 2}
SupportedMHF == {1, 2}
SupportedModes == {Internal, External}

Byte == 0 .. 255

-----------------------------------------------------------------------------
(* Encoding *)

B(n) == <<"b", n>>

RECURSIVE Pow256(_)
Pow256(k) == IF k = 0 THEN 1 ELSE 256 * Pow256(k - 1)

\* I2OSP fails (panics) on a value that does not fit the length
I2OSPFits(n, k) == n >= 0 /\ n < Pow256(k)

RECURSIVE I2OSP(_, _)
I2OSP(n, k) == IF k = 0 THEN <<>> ELSE Append(I2OSP(n \div 256, k - 1), n % 256)

RECURSIVE OS2IP(_)
OS2IP(b) == IF Len(b) = 0 THEN 0
            ELSE 256 * OS2IP(SubSeq(b, 1, Len(b) - 1)) + b[Len(b)]

Bytes(s) == [i \in 1 .. Len(s) |-> B(s[i])]

EncodeVectorLen(x, k) == Bytes(I2OSP(Len(x), k)) \o x
EncodeVector(x) == EncodeVectorLen(x, 2)

Prefix(x, n) == SubSeq(x, 1, n)
Suffix(x, n) == SubSeq(x, n + 1, Len(x))

-----------------------------------------------------------------------------
(* Configuration *)

Configuration(og, kdf, mac, h, mhf, mode, ag, nn) ==
    [OprfGroup |-> og, KDF |-> kdf, MAC |-> mac, Hash |-> h, MHF |-> mhf,
     Mode |-> mode, AKEGroup |-> ag, NonceLen |-> nn]

DefaultConfiguration ==
    Configuration(RistrettoSha512, 2, 2, 2, 2, Internal, RistrettoSha512, 32)

\* c.Serialize(): a panic of I2OSP leaves no result
Serialize(c) ==
    IF I2OSPFits(c.NonceLen, 1)
    THEN [panic |-> FALSE,
          b |-> <<c.OprfGroup, c.KDF, c.MAC, c.Hash, c.MHF, c.Mode, c.AKEGroup,
                  I2OSP(c.NonceLen, 1)[1]>>]
    ELSE [panic |-> TRUE, b |-> <<>>]

errInvalidLength == "invalid length"

\* a pointer result is <<>> (nil) or <<value>>
DeserializeConfigurationWrongLen(encoded) ==
    IF Len(encoded) < 8
    THEN [c |-> <<>>, err |-> errInvalidLength]
    ELSE [c |-> <<Configuration(encoded[1], encoded[2], encoded[3], encoded[4],
                                encoded[5], encoded[6], encoded[7],
                                OS2IP(Suffix(encoded, 7)))>>,
          err |-> "nil"]

DeserializeConfigurationSwapped(encoded) ==
    IF Len(encoded) # 8
    THEN [c |-> <<>>, err |-> errInvalidLength]
    ELSE [c |-> <<Configuration(encoded[1], encoded[3], encoded[2], encoded[4],
                                encoded[5], encoded[6], encoded[7],
                                OS2IP(Suffix(encoded, 7)))>>,
          err |-> "nil"]

DeserializeConfiguration(encoded) ==
    IF Len(encoded) # 8
    THEN [c |-> <<>>, err |-> errInvalidLength]
    ELSE [c |-> <<Configuration(encoded[1], encoded[2], encoded[3], encoded[4],
                                encoded[5], encoded[6], encoded[7],
                                OS2IP(Suffix(encoded, 7)))>>,
          err |-> "nil"]

Supported(c) ==
    /\ c.OprfGroup \in SupportedGroups
    /\ c.AKEGroup \in SupportedGroups
    /\ c.KDF \in SupportedHashes
    /\ c.MAC \in SupportedHashes
    /\ c.Hash \in SupportedHashes
    /\ c.MHF \in SupportedMHF
    /\ c.Mode \in SupportedModes

\* sizes, in blocks: a digest, a tag, an encoded element and an encoded scalar
\* are one block each
HashSize(h) == 1
ScalarLen(g) == 1
PointLen(g) == 1

EnvelopeSize(mode, nonceLen, macLen, g) ==
    IF mode = External THEN nonceLen + ScalarLen(g) + macLen
    ELSE nonceLen + macLen

\* voprf.Ciphersuite.Group(): the group of an OPRF ciphersuite
OprfSuiteGroup(g) == g

\* c.toInternal(); ip.Init() leaves the running hash empty
toInternal(c) ==
    [OprfCiphersuite |-> c.OprfGroup,
     KDF |-> c.KDF, MAC |-> c.MAC, Hash |-> c.Hash, MHF |-> c.MHF,
     AKEGroup |-> OprfSuiteGroup(c.OprfGroup),
     NonceLen |-> c.NonceLen,
     EnvelopeSize |-> EnvelopeSize(c.Mode, c.NonceLen, HashSize(c.MAC),
                                   OprfSuiteGroup(c.OprfGroup))]

-----------------------------------------------------------------------------
(* Primitives: hash, MAC, KDF, memory-hard function *)

\* Let(v, F) is F(v) with v evaluated once
Let(v, F(_)) == CHOOSE r \in { F(y) : y \in {v} } : TRUE

\* the two words of a digest are folded independently
Mix(c, a, b) == IF c = 1 THEN (a * 257 + b) % 32749 ELSE (a * 263 + b + 1) % 32719

Radix(c) == IF c = 1 THEN 257 ELSE 263
Modulus(c) == IF c = 1 THEN 32749 ELSE 32719

RECURSIVE PowMod(_, _, _)
PowMod(b, k, m) ==
    IF k = 0 THEN 1
    ELSE IF k % 2 = 1 THEN (b * PowMod(b, k - 1, m)) % m
    ELSE PowMod((b * b) % m, k \div 2, m)

\* the powers of the multiplier, for strings of up to 256 elements
RadixPowers ==
    [c \in {1, 2} |-> [k \in 0 .. 256 |-> PowMod(Radix(c), k, Modulus(c))]]

RECURSIVE CodeE(_, _), CodeRange(_, _, _, _)
\* what the elements lo .. hi of x add to the fold: element by element on a
\* short range, by halves on a long one
CodeRange(x, lo, hi, c) ==
    IF lo > hi THEN 0
    ELSE IF hi - lo < 8
    THEN (CodeRange(x, lo, hi - 1, c) * Radix(c) + CodeE(x[hi], c) + (c - 1))
             % Modulus(c)
    ELSE (CodeRange(x, lo, (lo + hi) \div 2, c)
             * RadixPowers[c][hi - ((lo + hi) \div 2)]
          + CodeRange(x, ((lo + hi) \div 2) + 1, hi, c)) % Modulus(c)
\* the fold of the first i elements of x: Mix applied from 7 to each in turn
CodeTo(x, i, c) ==
    (7 * RadixPowers[c][i] + CodeRange(x, 1, i, c)) % Modulus(c)
CodeE(e, c) ==
    CASE e[1] = "b" -> 1 + e[2]
      [] e[1] = "sc" -> 1001 + e[2]
      [] e[1] = "pt" -> 2001 + e[2]
      [] e[1] = "D" -> Mix(c, 4001, Mix(c, e[2], e[3]))
      [] e[1] = "XOR" -> Mix(c, 5003, Mix(c, CodeE(e[2], c), CodeE(e[3], c)))
      [] e[1] = "BL" -> Mix(c, 6007, Mix(c, e[2] + 1, e[3] + 1))
      [] e[1] = "EV" -> Mix(c, 7001, Mix(c, CodeE(e[2], c), CodeE(e[3], c)))
      [] e[1] = "KEY" -> Mix(c, 8009, Mix(c, e[2] + 1, CodeTo(e[3], Len(e[3]), c)))
      [] e[1] = "OPRF" -> Mix(c, 9001, Mix(c, CodeE(e[2], c), e[3] + 1))
      [] e[1] = "UB" -> Mix(c, 10007, Mix(c, e[2] + 1, CodeE(e[3], c)))
CodeS(x, c) == CodeTo(x, Len(x), c)

\* one output block of primitive `kind` with parameters nums on inputs a, b
Block(kind, nums, a, b) ==
    Let(<<a, b>>, LAMBDA v :
        <<"D",
          Mix(1, Mix(1, CodeS(<<B(kind)>> \o Bytes(nums), 1), CodeS(v[1], 1)), CodeS(v[2], 1)),
          Mix(2, Mix(2, CodeS(<<B(kind)>> \o Bytes(nums), 2), CodeS(v[1], 2)), CodeS(v[2], 2))>>)

\* digest of the bytes a running hash has absorbed so far
HashSum(h, written) == <<Block(11, <<h>>, written, <<>>)>>
MAC(h, key, msg) == <<Block(12, <<h>>, key, msg)>>
Extract(h, salt, ikm) == <<Block(13, <<h>>, salt, ikm)>>
Expand(h, prk, info, length) ==
    Let(<<prk, info>>, LAMBDA v :
        [i \in 1 .. length |-> Block(14, <<h, i>>, v[1], v[2])])
Harden(m, pwd) == <<Block(15, <<m>>, pwd, <<>>)>>

\* XOR of two blocks: (pad XOR (pad XOR x)) = x
XorE(pad, x) ==
    IF x[1] = "XOR" /\ x[2] = pad THEN x[3] ELSE <<"XOR", pad, x>>
Xor(pad, x) ==
    Let(<<pad, x>>, LAMBDA v : [i \in 1 .. Len(v[2]) |-> XorE(v[1][i], v[2][i])])

-----------------------------------------------------------------------------
(* The prime-order group of the AKE: elements by their discrete logarithm *)

Order(g) == IF g = RistrettoSha512 THEN 7 ELSE 5
Scalars(g) == 1 .. (Order(g) - 1)
Base == 1
Mult(g, p, s) == (p * s) % Order(g)

SerializeScalar(s) == << <<"sc", s>> >>
SerializePoint(p) == << <<"pt", p>> >>

DecodeScalar(g, b) ==
    IF Len(b) = ScalarLen(g) /\ b[1][1] = "sc" /\ b[1][2] \in 0 .. (Order(g) - 1)
    THEN [ok |-> TRUE, v |-> b[1][2]]
    ELSE [ok |-> FALSE, v |-> 0]

\* the identity element is rejected
DecodePoint(g, b) ==
    IF Len(b) = PointLen(g) /\ b[1][1] = "pt" /\ b[1][2] \in 1 .. (Order(g) - 1)
    THEN [ok |-> TRUE, v |-> b[1][2]]
    ELSE [ok |-> FALSE, v |-> 0]

-----------------------------------------------------------------------------
(* internal/ake/3dh.go *)

\* "OPAQUE-"
LabelPrefix == Bytes(<<79, 80, 65, 81, 85, 69, 45>>)
\* "3DH"
Tag3DH == Bytes(<<51, 68, 72>>)
\* "HandshakeSecret"
TagHandshake == Bytes(<<72, 97, 110, 100, 115, 104, 97, 107, 101, 83, 101, 99, 114, 101, 116>>)
\* "SessionKey"
TagSession == Bytes(<<83, 101, 115, 115, 105, 111, 110, 75, 101, 121>>)
\* "ServerMAC"
TagMacServer == Bytes(<<83, 101, 114, 118, 101, 114, 77, 65, 67>>)
\* "ClientMAC"
TagMacClient == Bytes(<<67, 108, 105, 101, 110, 116, 77, 65, 67>>)
\* "HandshakeEncrypt"
TagEncServer == Bytes(<<72, 97, 110, 100, 115, 104, 97, 107, 101, 69, 110, 99, 114, 121, 112, 116>>)
\* "EncryptInfo"
EncryptionTag == Bytes(<<69, 110, 99, 114, 121, 112, 116, 73, 110, 102, 111>>)

client == TRUE
server == FALSE

\* buildLabel with the length written last
buildLabelLengthLast(length, label, context) ==
    EncodeVectorLen(LabelPrefix \o label, 1)
        \o EncodeVectorLen(context, 1)
        \o Bytes(I2OSP(length, 2))

\* lengths are counted in elements
buildLabel(length, label, context) ==
    Bytes(I2OSP(length, 2))
        \o EncodeVectorLen(LabelPrefix \o label, 1)
        \o EncodeVectorLen(context, 1)

expand(h, secret, hkdfLabel) == Expand(h, secret, hkdfLabel, HashSize(h))

expandLabel(h, secret, label, context) ==
    expand(h, secret, buildLabel(HashSize(h), label, context))

deriveSecret(h, secret, label, context) == expandLabel(h, secret, label, context)

\* newInfo with the server identity written before KE1
newInfoIdentitiesFirst(ke1, idu, ids, response, nonceS, epks) ==
    Tag3DH \o EncodeVectorLen(idu, 2) \o EncodeVectorLen(ids, 2) \o ke1
        \o response \o nonceS \o epks

\* what newInfo writes to the running hash
newInfo(ke1, idu, ids, response, nonceS, epks) ==
    Tag3DH \o EncodeVectorLen(idu, 2) \o ke1
        \o EncodeVectorLen(ids, 2) \o response \o nonceS \o epks

deriveKeys(h, ikmBytes, context) ==
    Let(<<Extract(h, <<>>, ikmBytes), context>>, LAMBDA v :
    Let(deriveSecret(h, v[1], TagHandshake, v[2]), LAMBDA handshakeSecret :
        [prk |-> v[1],
         handshakeSecret |-> handshakeSecret,
         sessionSecret |-> deriveSecret(h, v[1], TagSession, v[2]),
         serverMacKey |-> expandLabel(h, handshakeSecret, TagMacServer, <<>>),
         clientMacKey |-> expandLabel(h, handshakeSecret, TagMacClient, <<>>),
         handshakeEncryptKey |->
             expandLabel(h, handshakeSecret, TagEncServer, <<>>)]))

decodeKeys(g, secret, peerEpk, peerPk) ==
    Let(<<DecodeScalar(g, secret), DecodePoint(g, peerEpk), DecodePoint(g, peerPk)>>,
        LAMBDA d :
        IF ~d[1].ok
        THEN [err |-> "decoding secret key", sk |-> 0, epk |-> 0, pk |-> 0]
        ELSE IF ~d[2].ok
        THEN [err |-> "decoding peer ephemeral public key", sk |-> 0, epk |-> 0, pk |-> 0]
        ELSE IF ~d[3].ok
        THEN [err |-> "decoding peer public key", sk |-> 0, epk |-> 0, pk |-> 0]
        ELSE [err |-> "nil", sk |-> d[1].v, epk |-> d[2].v, pk |-> d[3].v])

\* k3dh with the second product taken on the first element
k3dhMixed(g, p1, s1, p2, s2, p3, s3) ==
    SerializePoint(Mult(g, p1, s1)) \o SerializePoint(Mult(g, p1, s2))
        \o SerializePoint(Mult(g, p3, s3))

k3dh(g, p1, s1, p2, s2, p3, s3) ==
    SerializePoint(Mult(g, p1, s1)) \o SerializePoint(Mult(g, p2, s2))
        \o SerializePoint(Mult(g, p3, s3))

ikmSameOrder(s, g, esk, secretKey, peerEpk, peerPublicKey) ==
    Let(decodeKeys(g, secretKey, peerEpk, peerPublicKey), LAMBDA d :
        IF d.err # "nil" THEN [err |-> d.err, ikm |-> <<>>]
        ELSE [err |-> "nil", ikm |-> k3dh(g, d.epk, esk, d.pk, esk, d.epk, d.sk)])

ikm(s, g, esk, secretKey, peerEpk, peerPublicKey) ==
    Let(decodeKeys(g, secretKey, peerEpk, peerPublicKey), LAMBDA d :
        IF d.err # "nil" THEN [err |-> d.err, ikm |-> <<>>]
        ELSE IF s = client
        THEN [err |-> "nil", ikm |-> k3dh(g, d.epk, esk, d.pk, esk, d.epk, d.sk)]
        ELSE [err |-> "nil", ikm |-> k3dh(g, d.epk, esk, d.epk, d.sk, d.pk, esk)])

\* cryptInfo with a pad that depends on the bytes it encrypts
cryptInfoPadFromInfo(p, key, info) ==
    IF Len(info) # 0
    THEN Xor(Expand(p.KDF, key, EncryptionTag \o info, Len(info)), info)
    ELSE <<>>

cryptInfoEmpty(p, key, info) == <<>>

cryptInfo(p, key, info) ==
    IF Len(info) # 0
    THEN Xor(Expand(p.KDF, key, EncryptionTag, Len(info)), info)
    ELSE <<>>

getServerMacNoInfo(p, written, key, einfo) ==
    [written |-> written, mac |-> MAC(p.MAC, key, HashSum(p.Hash, written))]

\* getServerMac writes Vec2(einfo) to the running hash and MACs its digest
getServerMac(p, written, key, einfo) ==
    Let(written \o EncodeVector(einfo), LAMBDA w :
        [written |-> w, mac |-> MAC(p.MAC, key, HashSum(p.Hash, w))])

NoBuffers ==
    [ikm |-> <<>>, prk |-> <<>>, handshakeSecret |-> <<>>, serverMacKey |-> <<>>,
     clientMacKey |-> <<>>, handshakeEncryptKey |-> <<>>]

\* the rest of core3DH with the info argument written to the hash as it came
core3DHMacsPlain(s, p, w1, i, keys, info) ==
    Let(cryptInfo(p, keys.handshakeEncryptKey, info), LAMBDA stInfo :
    Let(getServerMac(p, w1, keys.serverMacKey, info), LAMBDA sm :
    Let(sm.written \o sm.mac, LAMBDA w3 :
        [err |-> "nil", info |-> stInfo, serverMac |-> sm.mac,
         clientMac |-> MAC(p.MAC, keys.clientMacKey, HashSum(p.Hash, w3)),
         sessionSecret |-> keys.sessionSecret, written |-> w3,
         bufs |-> [ikm |-> i.ikm, prk |-> keys.prk,
                   handshakeSecret |-> keys.handshakeSecret,
                   serverMacKey |-> keys.serverMacKey,
                   clientMacKey |-> keys.clientMacKey,
                   handshakeEncryptKey |-> keys.handshakeEncryptKey]])))

\* the rest of core3DH once the keys are derived
core3DHMacs(s, p, w1, i, keys, info) ==
    Let(cryptInfo(p, keys.handshakeEncryptKey, info), LAMBDA stInfo :
    Let(IF s = client THEN getServerMac(p, w1, keys.serverMacKey, info)
        ELSE getServerMac(p, w1, keys.serverMacKey, stInfo), LAMBDA sm :
    Let(sm.written \o sm.mac, LAMBDA w3 :
        [err |-> "nil", info |-> stInfo, serverMac |-> sm.mac,
         clientMac |-> MAC(p.MAC, keys.clientMacKey, HashSum(p.Hash, w3)),
         sessionSecret |-> keys.sessionSecret, written |-> w3,
         bufs |-> [ikm |-> i.ikm, prk |-> keys.prk,
                   handshakeSecret |-> keys.handshakeSecret,
                   serverMacKey |-> keys.serverMacKey,
                   clientMacKey |-> keys.clientMacKey,
                   handshakeEncryptKey |-> keys.handshakeEncryptKey]])))

\* core3DH with newInfo absorbed before the keys are decoded
core3DHAbsorbsFirst(s, p, written, esk, secretKey, peerEpk, peerPublicKey, epks, idu, ids, nonceS, credResp, info, ke1) ==
    Let(ikm(s, p.AKEGroup, esk, secretKey, peerEpk, peerPublicKey), LAMBDA i :
        Let(written \o newInfo(ke1, idu, ids, credResp, nonceS, epks), LAMBDA w1 :
            IF i.err # "nil"
            THEN [err |-> i.err, info |-> <<>>, serverMac |-> <<>>, clientMac |-> <<>>,
                  sessionSecret |-> <<>>, written |-> w1, bufs |-> NoBuffers]
            ELSE Let(deriveKeys(p.KDF, i.ikm, HashSum(p.Hash, w1)), LAMBDA keys :
                     core3DHMacs(s, p, w1, i, keys, info))))

\* core3DH: `written` is what p.Hash has absorbed before the call.  The result
\* carries the output, the session secret, the running hash afterwards, and
\* the buffers the call allocated and left behind (none is cleared).
core3DH(s, p, written, esk, secretKey, peerEpk, peerPublicKey, epks, idu, ids, nonceS, credResp, info, ke1) ==
    Let(ikm(s, p.AKEGroup, esk, secretKey, peerEpk, peerPublicKey), LAMBDA i :
        IF i.err # "nil"
        THEN [err |-> i.err, info |-> <<>>, serverMac |-> <<>>, clientMac |-> <<>>,
              sessionSecret |-> <<>>, written |-> written, bufs |-> NoBuffers]
        ELSE Let(written \o newInfo(ke1, idu, ids, credResp, nonceS, epks), LAMBDA w1 :
             Let(deriveKeys(p.KDF, i.ikm, HashSum(p.Hash, w1)), LAMBDA keys :
                 core3DHMacs(s, p, w1, i, keys, info))))

-----------------------------------------------------------------------------
(* Handle construction: c.Client() and c.Server() *)

\* NewClient / NewServer take the Configuration and return a handle; neither
\* has an error result.  What the primitive packages do with an identifier
\* they do not know is not fixed by this repository: the call may panic or
\* return a handle around unusable primitives.
HandleOutcomes(c) == IF Supported(c) THEN {"handle"} ELSE {"handle", "panic"}

NewHandle(kind, c, outcome) ==
    [kind |-> kind, outcome |-> outcome, err |-> "nil", c |-> c,
     p |-> IF outcome = "handle" THEN <<toInternal(c)>> ELSE <<>>]

-----------------------------------------------------------------------------
(* Inputs of the Configuration operations *)

ConfigSet ==
    { Configuration(og, kdf, mac, h, mhf, mode, ag, nn) :
        og \in {RistrettoSha512, 2}, kdf \in {1, 2}, mac \in {1, 2},
        h \in {2, 200}, mhf \in {2, 0}, mode \in {Internal, 3},
        ag \in {RistrettoSha512, P256Sha256}, nn \in {0, 32, 255, 256} }

InputLens == 0 .. (8 + MaxExtraLen)

InputSet ==
    { [i \in 1 .. n |-> IF i = k THEN v ELSE 1] :
        n \in InputLens, k \in 1 .. 8, v \in {0, 2, 255} }

NoRun == <<>>

InitConfig ==
    /\ \/ cfg \in ConfigSet /\ input = <<>>
       \/ cfg = DefaultConfiguration /\ input \in InputSet
    /\ ser = <<>>
    /\ des = <<>>
    /\ hnd = <<>>
    /\ conf = NoRun /\ creds = NoRun /\ reg = NoRun /\ cl = NoRun
    /\ sv = NoRun /\ net = NoRun /\ adv = NoRun /\ mem = NoRun
    /\ det = NoRun /\ ses = NoRun /\ dh = NoRun /\ hk = NoRun /\ tx = NoRun
    /\ ci = NoRun /\ dk = NoRun

DoSerialize ==
    /\ ser = <<>>
    /\ ser' = <<Serialize(cfg)>>
    /\ UNCHANGED <<cfg, input, des, hnd, runVars, auxVars>>

\* DeserializeConfiguration on what Serialize returned
DoDeserializeSerialized ==
    /\ ser # <<>> /\ ~ser[1].panic
    /\ des = <<>>
    /\ des' = <<[from |-> "ser", arg |-> ser[1].b,
                 r |-> DeserializeConfiguration(ser[1].b)]>>
    /\ UNCHANGED <<cfg, input, ser, hnd, runVars, auxVars>>

\* DeserializeConfiguration on arbitrary bytes
DoDeserializeInput ==
    /\ des = <<>>
    /\ des' = <<[from |-> "input", arg |-> input,
                 r |-> DeserializeConfiguration(input)]>>
    /\ UNCHANGED <<cfg, input, ser, hnd, runVars, auxVars>>

\* cfg.Client() / cfg.Server()
DoHandle ==
    /\ hnd = <<>>
    /\ \E kind \in {"client", "server"}, o \in HandleOutcomes(cfg) :
          hnd' = <<NewHandle(kind, cfg, o)>>
    /\ UNCHANGED <<cfg, input, ser, des, runVars, auxVars>>

\* Client() / Server() on the Configuration DeserializeConfiguration returned
DoHandleDeserialized ==
    /\ hnd = <<>>
    /\ des # <<>> /\ des[1].r.c # <<>>
    /\ \E kind \in {"client", "server"}, o \in HandleOutcomes(des[1].r.c[1]) :
          hnd' = <<NewHandle(kind, des[1].r.c[1], o)>>
    /\ UNCHANGED <<cfg, input, ser, des, runVars, auxVars>>

-----------------------------------------------------------------------------
(* OPRF adapter (base mode, multiplicative blinding) *)

Blind(r, pwd) == << <<"BL", r, pwd>> >>
DeriveKeyPair(seed, credentialIdentifier) == <<"KEY", seed, credentialIdentifier>>
IsElement(b) == Len(b) = 1 /\ b[1][1] \in {"BL", "EV"}
Evaluate(k, blinded) == << <<"EV", k, blinded[1]>> >>

\* unblinding gives F(k, pwd) only for the evaluation of this client's own
\* blinded password
Unblind(r, pwd, evaluated) ==
    LET e == evaluated[1]
    IN  IF e[1] = "EV" /\ e[3][1] = "BL" /\ e[3][2] = r /\ e[3][3] = pwd
        THEN << <<"OPRF", e[2], pwd>> >>
        ELSE << <<"UB", r, e>> >>

-----------------------------------------------------------------------------
(* Envelope *)

\* "MaskingKey"
LabelMaskingKey == Bytes(<<77, 97, 115, 107, 105, 110, 103, 75, 101, 121>>)
\* "AuthKey"
LabelAuthKey == Bytes(<<65, 117, 116, 104, 75, 101, 121>>)
\* "ExportKey"
LabelExportKey == Bytes(<<69, 120, 112, 111, 114, 116, 75, 101, 121>>)
\* "PrivateKey"
LabelPrivateKey == Bytes(<<80, 114, 105, 118, 97, 116, 101, 75, 101, 121>>)
\* "Pad"
LabelPad == Bytes(<<80, 97, 100>>)
\* "CredentialResponsePad"
LabelCredentialResponsePad == Bytes(<<67, 114, 101, 100, 101, 110, 116, 105, 97, 108, 82, 101, 115, 112, 111, 110, 115, 101, 80, 97, 100>>)

\* hash-to-scalar: a nonzero scalar determined by the input
HashToScalar(g, x) == 1 + (CodeS(x, 1) % (Order(g) - 1))

RandomizedPwd(p, oprfOutput) == Harden(p.MHF, oprfOutput)
MaskingKey(p, rpwd) == Expand(p.KDF, rpwd, LabelMaskingKey, HashSize(p.KDF))
AuthKey(p, rpwd, nonce) ==
    Expand(p.KDF, rpwd, nonce \o LabelAuthKey, HashSize(p.KDF))
ExportKey(p, rpwd, nonce) ==
    Expand(p.KDF, rpwd, nonce \o LabelExportKey, HashSize(p.KDF))
InternalSecret(p, rpwd, nonce) ==
    HashToScalar(p.AKEGroup,
        Expand(p.KDF, rpwd, nonce \o LabelPrivateKey, ScalarLen(p.AKEGroup)))
EnvelopePad(p, rpwd, nonce) ==
    Expand(p.KDF, rpwd, nonce \o LabelPad, ScalarLen(p.AKEGroup))

AuthTag(p, rpwd, nonce, inner, pks, idu, ids) ==
    MAC(p.MAC, AuthKey(p, rpwd, nonce), nonce \o inner \o pks \o ids \o idu)

EnvelopeNonceOf(p, envelope) == Prefix(envelope, p.NonceLen)
EnvelopeInner(p, envelope) ==
    SubSeq(envelope, p.NonceLen + 1, Len(envelope) - HashSize(p.MAC))
EnvelopeTag(p, envelope) == Suffix(envelope, Len(envelope) - HashSize(p.MAC))

\* creation at registration; skU is the caller's long-term scalar (External)
CreateEnvelope(p, mode, rpwd, nonce, pks, idu, ids, skU) ==
    Let(IF mode = External
        THEN Xor(EnvelopePad(p, rpwd, nonce), SerializeScalar(skU))
        ELSE <<>>, LAMBDA inner :
        [envelope |-> nonce \o inner \o AuthTag(p, rpwd, nonce, inner, pks, idu, ids),
         pku |-> SerializePoint(Mult(p.AKEGroup, Base,
                     IF mode = External THEN skU ELSE InternalSecret(p, rpwd, nonce))),
         maskingKey |-> MaskingKey(p, rpwd),
         exportKey |-> ExportKey(p, rpwd, nonce)])

\* what opening returns once the tag is accepted
Opened(p, mode, rpwd, envelope) ==
    [err |-> "nil",
     sk |-> IF mode = External
            THEN Xor(EnvelopePad(p, rpwd, EnvelopeNonceOf(p, envelope)),
                     EnvelopeInner(p, envelope))
            ELSE SerializeScalar(InternalSecret(p, rpwd, EnvelopeNonceOf(p, envelope))),
     exportKey |-> ExportKey(p, rpwd, EnvelopeNonceOf(p, envelope))]

OpenEnvelopeNoCheck(p, mode, rpwd, envelope, pks, idu, ids) ==
    Opened(p, mode, rpwd, envelope)

\* opening at login: the tag is checked before anything is returned
OpenEnvelope(p, mode, rpwd, envelope, pks, idu, ids) ==
    IF EnvelopeTag(p, envelope)
         # AuthTag(p, rpwd, EnvelopeNonceOf(p, envelope), EnvelopeInner(p, envelope),
                   pks, idu, ids)
    THEN [err |-> "InvalidCredentials", sk |-> <<>>, exportKey |-> <<>>]
    ELSE Opened(p, mode, rpwd, envelope)

CredentialResponsePad(p, maskingKey, maskingNonce) ==
    Expand(p.KDF, maskingKey, maskingNonce \o LabelCredentialResponsePad,
           PointLen(p.AKEGroup) + p.EnvelopeSize)

-----------------------------------------------------------------------------
(* Messages *)

SerializeKE1(m) == m.blinded \o m.nonceU \o m.epku
SerializeCredentialResponse(m) == m.evaluated \o m.maskingNonce \o m.masked

\* KE2: credential_response, server_nonce, epks, Vec2(einfo), server_mac
SerializeKE2(m) ==
    SerializeCredentialResponse(m) \o m.nonceS \o m.epks \o EncodeVector(m.einfo) \o m.mac
SerializeKE3(m) == m.mac

\* sizes of the wire formats; KE2 carries an einfo of infoLen bytes
KE1Size(p) == PointLen(p.AKEGroup) + p.NonceLen + PointLen(p.AKEGroup)
CredentialResponseSize(p) ==
    PointLen(p.AKEGroup) + p.NonceLen + PointLen(p.AKEGroup) + p.EnvelopeSize
KE2Size(p, infoLen) ==
    CredentialResponseSize(p) + p.NonceLen + PointLen(p.AKEGroup) + 2 + infoLen
        + HashSize(p.MAC)
KE3Size(p) == HashSize(p.MAC)

\* the bytes of b from position from + 1, n of them
Cut(b, from, n) == SubSeq(b, from + 1, from + n)
\* whether every element of b is a plain byte
PlainBytes(b) == \A i \in 1 .. Len(b) : b[i][1] = "b"
Values(b) == [i \in 1 .. Len(b) |-> b[i][2]]

DeserializeKE1(p, b) ==
    IF Len(b) # KE1Size(p) THEN [err |-> "InvalidLength", m |-> <<>>]
    ELSE [err |-> "nil",
          m |-> <<[blinded |-> Cut(b, 0, PointLen(p.AKEGroup)),
                   nonceU |-> Cut(b, PointLen(p.AKEGroup), p.NonceLen),
                   epku |-> Cut(b, PointLen(p.AKEGroup) + p.NonceLen,
                                PointLen(p.AKEGroup))]>>]

\* the fields of KE2 are cut at the configuration's sizes; the length of einfo
\* is read from its two-byte prefix and must account for the rest
DeserializeKE2(p, b) ==
    LET npk == PointLen(p.AKEGroup)
        crs == CredentialResponseSize(p)
        fix == crs + p.NonceLen + npk
        pre == Cut(b, fix, 2)
    IN  IF Len(b) < KE2Size(p, 0) \/ ~PlainBytes(pre)
        THEN [err |-> "InvalidLength", m |-> <<>>]
        ELSE IF Len(b) # KE2Size(p, OS2IP(Values(pre)))
        THEN [err |-> "InvalidLength", m |-> <<>>]
        ELSE [err |-> "nil",
              m |-> <<[evaluated |-> Cut(b, 0, npk),
                       maskingNonce |-> Cut(b, npk, p.NonceLen),
                       masked |-> Cut(b, npk + p.NonceLen, npk + p.EnvelopeSize),
                       nonceS |-> Cut(b, crs, p.NonceLen),
                       epks |-> Cut(b, crs + p.NonceLen, npk),
                       einfo |-> Cut(b, fix + 2, OS2IP(Values(pre))),
                       mac |-> Cut(b, fix + 2 + OS2IP(Values(pre)), HashSize(p.MAC))]>>]

DeserializeKE3(p, b) ==
    IF Len(b) # KE3Size(p) THEN [err |-> "InvalidLength", m |-> <<>>]
    ELSE [err |-> "nil", m |-> <<[mac |-> b]>>]


-----------------------------------------------------------------------------
(* Inputs of a registration and login run *)

Passwords == 1 .. NumPasswords

RunConfigs ==
    { Configuration(RistrettoSha512, 2, 2, 2, 2, mode, RistrettoSha512, 2) :
        mode \in SupportedModes }

InfoSet == { [i \in 1 .. n |-> B(i)] : n \in 0 .. MaxInfoLen }

Nonce(p, v) == [i \in 1 .. p.NonceLen |-> B(v)]

\* the values the vectors inject: blinds, nonces, key shares, long-term keys
OprfSeed == 9
CredentialIdentifier == <<B(13)>>
ServerIdentity == <<B(12)>>
ClientIdentities == {<<>>, <<B(11)>>}
BlindRegistration == 1
BlindLogin == 2
EnvelopeNonce(p) == Nonce(p, 23)
MaskingNonce(p) == Nonce(p, 24)
ClientNonce(p) == Nonce(p, 21)
ServerNonce(p) == Nonce(p, 22)
ServerPrivateKey == SerializeScalar(3)
ServerPublicKey(p) == SerializePoint(Mult(p.AKEGroup, Base, 3))
ClientPrivateKey == 4
ClientPrivateKeyshares == {2}
ServerPrivateKeyshares == {5}

P == toInternal(conf)

NoHandle ==
    [pc |-> "new", pwd |-> 0, esk |-> 0, ke1 |-> <<>>, written |-> <<>>,
     SessionSecret |-> <<>>, exportKey |-> <<>>, ClientMac |-> <<>>,
     computed |-> <<>>, err |-> "nil", last |-> <<>>,
     envOK |-> "none", macOK |-> "none", authErr |-> "nil"]

Init ==
    /\ cfg = DefaultConfiguration /\ input = <<>>
    /\ ser = <<>> /\ des = <<>> /\ hnd = <<>>
    /\ conf \in RunConfigs
    /\ \E idu \in ClientIdentities, info \in InfoSet :
          creds = [idu |-> idu, ids |-> ServerIdentity, info |-> info]
    /\ reg = [pc |-> "start", pwd |-> 0, request |-> <<>>, response |-> <<>>,
              record |-> <<>>, exportKey |-> <<>>]
    /\ cl = NoHandle
    /\ sv = NoHandle
    /\ net = [ke1 |-> <<>>, ke2 |-> <<>>, ke3 |-> <<>>]
    /\ adv = [n |-> 0, ke1 |-> FALSE, ke2 |-> FALSE, ke3 |-> FALSE]
    /\ mem = [client |-> NoBuffers, server |-> NoBuffers]
    /\ det = NoRun /\ ses = NoRun /\ dh = NoRun /\ hk = NoRun /\ tx = NoRun
    /\ ci = NoRun /\ dk = NoRun

-----------------------------------------------------------------------------
(* Registration *)

\* client.RegistrationInit(password)
RegistrationInit ==
    /\ reg.pc = "start"
    /\ \E pwd \in Passwords :
          reg' = [reg EXCEPT !.pc = "request", !.pwd = pwd,
                             !.request = Blind(BlindRegistration, pwd)]
    /\ UNCHANGED <<cfgVars, auxVars, conf, creds, cl, sv, net, adv, mem>>

\* server.RegistrationResponse(request, pks, credential_identifier, oprf_seed)
RegistrationResponse ==
    /\ reg.pc = "request"
    /\ reg' = [reg EXCEPT !.pc = "response",
                  !.response = [data |-> Evaluate(DeriveKeyPair(OprfSeed,
                                                  CredentialIdentifier), reg.request),
                                pks |-> ServerPublicKey(P)]]
    /\ UNCHANGED <<cfgVars, auxVars, conf, creds, cl, sv, net, adv, mem>>

\* client.RegistrationFinalize(skU, credentials, response); the server stores
\* the upload as the ClientRecord
RegistrationFinalize ==
    /\ reg.pc = "response"
    /\ \E rpwd \in {RandomizedPwd(P, Unblind(BlindRegistration, reg.pwd,
                                             reg.response.data))} :
       \E e \in {CreateEnvelope(P, conf.Mode, rpwd, EnvelopeNonce(P),
                                reg.response.pks, creds.idu, creds.ids,
                                ClientPrivateKey)} :
          reg' = [reg EXCEPT !.pc = "done",
                     !.exportKey = e.exportKey,
                     !.record = <<[CredentialIdentifier |-> CredentialIdentifier,
                                   ClientIdentity |-> creds.idu,
                                   pku |-> e.pku,
                                   maskingKey |-> e.maskingKey,
                                   envelope |-> e.envelope]>>]
    /\ UNCHANGED <<cfgVars, auxVars, conf, creds, cl, sv, net, adv, mem>>

-----------------------------------------------------------------------------
(* Login *)

\* client.Init(password): KE1
ClientInit ==
    /\ reg.pc = "done"
    /\ cl.pc = "new"
    /\ \E pwd \in Passwords, esk \in ClientPrivateKeyshares :
          LET m == [blinded |-> Blind(BlindLogin, pwd),
                    nonceU |-> ClientNonce(P),
                    epku |-> SerializePoint(Mult(P.AKEGroup, Base, esk))]
          IN  /\ cl' = [cl EXCEPT !.pc = "ke1", !.pwd = pwd, !.esk = esk,
                                  !.ke1 = SerializeKE1(m)]
              /\ net' = [net EXCEPT !.ke1 = <<m>>]
    /\ UNCHANGED <<cfgVars, auxVars, conf, creds, reg, sv, adv, mem>>

\* the error a Server method hands back is the one its function returned
ResponseError(e) == e
FinalizeErrorNamed(e) == IF e = "InvalidCredentials" THEN "InvalidClientMac" ELSE e
FinalizeErrorDropped(e) == "nil"
FinalizeError(e) == e

\* Server.SessionKey()
SessionKeyWrongField(s) == s.ClientMac
SessionKey(s) == s.SessionSecret

\* the credential response of KE2
CredentialResponse(p, rec, blinded) ==
    [evaluated |-> Evaluate(DeriveKeyPair(OprfSeed, rec.CredentialIdentifier), blinded),
     maskingNonce |-> MaskingNonce(p),
     masked |-> Xor(CredentialResponsePad(p, rec.maskingKey, MaskingNonce(p)),
                    ServerPublicKey(p) \o rec.envelope)]

\* Server.Response: the credential response and the server side of 3DH
ServerResponse ==
    /\ sv.pc = "new"
    /\ net.ke1 # <<>>
    /\ reg.record # <<>>
    /\ \E esk \in ServerPrivateKeyshares, m \in {net.ke1[1]}, rec \in {reg.record[1]},
          p \in {P} :
          IF ~IsElement(m.blinded)
          THEN /\ sv' = [sv EXCEPT !.pc = "failed",
                                   !.err = ResponseError("InvalidEncoding")]
               /\ UNCHANGED <<net, mem>>
          ELSE
          \E credResp \in {CredentialResponse(p, rec, m.blinded)},
             epks \in {SerializePoint(Mult(p.AKEGroup, Base, esk))} :
          \E r \in {core3DH(server, p, sv.written, esk, ServerPrivateKey, m.epku,
                            rec.pku, epks, rec.ClientIdentity, creds.ids,
                            ServerNonce(p), SerializeCredentialResponse(credResp),
                            creds.info, SerializeKE1(m))} :
              IF r.err # "nil"
              THEN /\ sv' = [sv EXCEPT !.pc = "failed",
                                       !.err = ResponseError("InvalidEncoding")]
                   /\ UNCHANGED <<net, mem>>
              ELSE /\ sv' = [sv EXCEPT !.pc = "ke2", !.esk = esk,
                                       !.written = r.written,
                                       !.SessionSecret = r.sessionSecret,
                                       !.computed = r.sessionSecret,
                                       !.ClientMac = r.clientMac,
                                       !.err = ResponseError("nil")]
                   /\ net' = [net EXCEPT !.ke2 =
                                <<[evaluated |-> credResp.evaluated,
                                   maskingNonce |-> credResp.maskingNonce,
                                   masked |-> credResp.masked,
                                   nonceS |-> ServerNonce(p),
                                   epks |-> epks,
                                   einfo |-> r.info,
                                   mac |-> r.serverMac,
                                   bad |-> FALSE]>>]
                   /\ mem' = [mem EXCEPT !.server = r.bufs]
    /\ UNCHANGED <<cfgVars, auxVars, conf, creds, reg, cl, adv>>

\* client.Finish(idu, ids, ke2): unmask, open the envelope, the client side of
\* 3DH, the server MAC; KE3 on success
ClientFinish ==
    /\ cl.pc = "ke1"
    /\ net.ke2 # <<>>
    /\ \E m \in {net.ke2[1]}, p \in {P} :
          IF m.bad
          THEN /\ cl' = [cl EXCEPT !.pc = "failed", !.err = "InvalidLength"]
               /\ UNCHANGED <<net, mem>>
          ELSE IF ~IsElement(m.evaluated)
          THEN /\ cl' = [cl EXCEPT !.pc = "failed", !.err = "InvalidEncoding"]
               /\ UNCHANGED <<net, mem>>
          ELSE
          \E rpwd \in {RandomizedPwd(p, Unblind(BlindLogin, cl.pwd, m.evaluated))} :
          \E clear \in {Xor(CredentialResponsePad(p, MaskingKey(p, rpwd),
                                                  m.maskingNonce), m.masked)} :
          \E env \in {OpenEnvelope(p, conf.Mode, rpwd,
                                   Suffix(clear, PointLen(p.AKEGroup)),
                                   Prefix(clear, PointLen(p.AKEGroup)),
                                   creds.idu, creds.ids)} :
              IF env.err # "nil"
              THEN /\ cl' = [cl EXCEPT !.pc = "failed", !.err = env.err,
                                       !.envOK = "bad", !.authErr = env.err]
                   /\ UNCHANGED <<net, mem>>
              ELSE
              \E r \in {core3DH(client, p, cl.written, cl.esk, env.sk, m.epks,
                                Prefix(clear, PointLen(p.AKEGroup)), m.epks,
                                creds.idu, creds.ids, m.nonceS,
                                SerializeCredentialResponse(m), m.einfo, cl.ke1)} :
                  IF r.err # "nil"
                  THEN /\ cl' = [cl EXCEPT !.pc = "failed", !.err = "InvalidEncoding",
                                           !.envOK = "ok"]
                       /\ UNCHANGED <<net, mem>>
                  ELSE IF r.serverMac # m.mac
                  THEN /\ cl' = [cl EXCEPT !.pc = "failed",
                                           !.err = "InvalidCredentials",
                                           !.authErr = "InvalidCredentials",
                                           !.envOK = "ok", !.macOK = "bad",
                                           !.written = r.written,
                                           !.computed = r.sessionSecret]
                       /\ mem' = [mem EXCEPT !.client = r.bufs]
                       /\ UNCHANGED net
                  ELSE /\ cl' = [cl EXCEPT !.pc = "done", !.err = "nil",
                                           !.envOK = "ok", !.macOK = "ok",
                                           !.written = r.written,
                                           !.computed = r.sessionSecret,
                                           !.SessionSecret = r.sessionSecret,
                                           !.exportKey = env.exportKey]
                       /\ mem' = [mem EXCEPT !.client = r.bufs]
                       /\ net' = [net EXCEPT !.ke3 = <<[mac |-> r.clientMac]>>]
    /\ UNCHANGED <<cfgVars, auxVars, conf, creds, reg, sv, adv>>

\* the session's finalize function: KE3 is handled only after KE2 was produced
finalize(pc, expected, mac) ==
    IF pc # "ke2" THEN "InvalidState"
    ELSE IF mac # expected THEN "InvalidCredentials"
    ELSE "nil"

\* a KE3 that reaches the server: the client's, or one sent before any KE1
IncomingKE3 ==
    IF net.ke3 # <<>> THEN {net.ke3[1]}
    ELSE IF sv.pc = "new" THEN {[mac |-> <<B(255)>>]}
    ELSE {}

\* Server.Finalize
ServerFinalize ==
    /\ \E m \in IncomingKE3 :
       \E e \in {finalize(sv.pc, sv.ClientMac, m.mac)} :
       \E after \in {[sv EXCEPT
                        !.pc = IF e = "InvalidState" THEN @
                               ELSE IF e = "nil" THEN "done" ELSE "failed",
                        !.err = FinalizeError(e),
                        !.macOK = IF e = "InvalidState" THEN @
                                  ELSE IF e = "nil" THEN "ok" ELSE "bad",
                        !.authErr = IF e = "InvalidCredentials" THEN FinalizeError(e)
                                    ELSE @]} :
          sv' = [after EXCEPT
                   !.last = <<[at |-> sv.pc, err |-> after.err,
                               before |-> SessionKey(sv),
                               after |-> SessionKey(after),
                               pc |-> after.pc]>>]
    /\ UNCHANGED <<cfgVars, auxVars, conf, creds, reg, cl, net, adv, mem>>

-----------------------------------------------------------------------------
(* The network *)

Fields(m) ==
    CASE m = "ke1" -> {"blinded", "nonceU", "epku"}
      [] m = "ke2" -> {"evaluated", "maskingNonce", "masked", "nonceS", "epks",
                       "einfo", "mac"}
      [] m = "ke3" -> {"mac"}

\* a message can be altered until its receiver has read it
InFlight(m) ==
    /\ net[m] # <<>>
    /\ CASE m = "ke1" -> sv.pc = "new"
         [] m = "ke2" -> cl.pc = "ke1"
         [] m = "ke3" -> sv.pc = "ke2"

\* what a block with flipped bits can become: another block of the same length
Replacements(g, e) ==
    IF e = B(255) THEN {B(254)}
    ELSE IF e[1] = "pt" THEN {B(255), <<"pt", (e[2] % (Order(g) - 1)) + 1>>}
    ELSE IF e[1] \in {"BL", "EV"} THEN {B(255), <<"BL", 0, 0>>}
    ELSE {B(255)}

\* flipping bits of a block of a message, or of the length prefix of einfo
Tamper ==
    /\ adv.n < MaxTamper
    /\ \E m \in {"ke1", "ke2", "ke3"} :
          /\ InFlight(m)
          /\ \/ \E f \in Fields(m) :
                  \E i \in 1 .. Len(net[m][1][f]) :
                     \E rep \in Replacements(P.AKEGroup, net[m][1][f][i]) :
                        net' = [net EXCEPT ![m] =
                                  <<[@[1] EXCEPT ![f] = [@ EXCEPT ![i] = rep]]>>]
             \/ /\ m = "ke2"
                /\ ~net.ke2[1].bad
                /\ net' = [net EXCEPT !.ke2 = <<[@[1] EXCEPT !.bad = TRUE]>>]
          /\ adv' = [adv EXCEPT !.n = @ + 1, ![m] = TRUE]
    /\ UNCHANGED <<cfgVars, auxVars, conf, creds, reg, cl, sv, mem>>

Next ==
    \/ RegistrationInit
    \/ RegistrationResponse
    \/ RegistrationFinalize
    \/ ClientInit
    \/ ServerResponse
    \/ ClientFinish
    \/ ServerFinalize
    \/ Tamper

Spec == Init /\ [][Next]_vars


NextConfig ==
    \/ DoSerialize
    \/ DoDeserializeSerialized
    \/ DoDeserializeInput
    \/ DoHandle
    \/ DoHandleDeserialized

SpecConfig == InitConfig /\ [][NextConfig]_vars

-----------------------------------------------------------------------------
(* Properties of registration and login (checked under Spec) *)

ClientDone == cl.pc \in {"done", "failed"}
KeysEqual == cl.SessionSecret # <<>> /\ cl.SessionSecret = SessionKey(sv)
\* the server has handled a KE3 that arrived in sequence
KE3Handled == sv.macOK # "none"

\* C1: a registration followed by an untampered login with the same password
\* ends with the client's session key equal to the server's and with the
\* export key of the client's Finish equal to the one of RegistrationFinalize.
RegistrationLoginConsistency ==
    /\ (adv.n = 0 /\ ClientDone /\ cl.pwd = reg.pwd) =>
          /\ cl.pc = "done"
          /\ KeysEqual
          /\ cl.exportKey # <<>> /\ cl.exportKey = reg.exportKey
    /\ (adv.n = 0 /\ KE3Handled /\ cl.pwd = reg.pwd) =>
          /\ sv.pc = "done"
          /\ KeysEqual

RegistrationLoginConsistencyWitness ==
    /\ adv.n = 0 /\ cl.pc = "done" /\ sv.pc = "done"
    /\ conf.Mode = External /\ creds.info # <<>>
    /\ KeysEqual /\ cl.exportKey = reg.exportKey

NoSessionKeyBeforeVerification ==
    /\ SessionKey(sv) # <<>> => sv.pc = "done"
    /\ adv.n > 0 => (cl.SessionSecret = <<>> /\ SessionKey(sv) = <<>>)

\* C3 amended: a tampered KE1 or KE2 makes the client's Finish fail without a
\* session key, and after any tampering the server's Finalize never succeeds;
\* the server's SessionKey() yields the session secret as soon as Response
\* has produced KE2.
TamperDetected ==
    /\ ((adv.ke1 \/ adv.ke2) /\ ClientDone) =>
          (cl.pc = "failed" /\ cl.err # "nil" /\ cl.SessionSecret = <<>>)
    /\ adv.n > 0 => sv.pc # "done"
    /\ (adv.n > 0 /\ KE3Handled) => (sv.pc = "failed" /\ sv.err # "nil")
    /\ sv.pc = "ke2" => SessionKey(sv) # <<>>

TamperDetectedWitness ==
    /\ adv.ke2 /\ cl.pc = "failed" /\ cl.macOK = "bad"
    /\ sv.pc = "ke2" /\ SessionKey(sv) # <<>>

\* C4: a login with a password other than the registered one fails with
\* InvalidCredentials: the envelope verifies exactly when the login password
\* is the registration password, and a failure returns no session key and no
\* export key.
PasswordSensitivity ==
    (ClientDone /\ ~adv.ke1 /\ ~adv.ke2) =>
        /\ (cl.envOK = "ok") <=> (cl.pwd = reg.pwd)
        /\ cl.pwd # reg.pwd =>
              /\ cl.pc = "failed" /\ cl.err = "InvalidCredentials"
              /\ cl.SessionSecret = <<>> /\ cl.exportKey = <<>>
              /\ net.ke3 = <<>>

PasswordSensitivityWitness ==
    /\ adv.n = 0 /\ cl.pc = "failed" /\ cl.pwd # reg.pwd
    /\ cl.err = "InvalidCredentials"

SecretsZeroized ==
    /\ sv.pc \in {"ke2", "done", "failed"} => mem.server = NoBuffers
    /\ ClientDone => mem.client = NoBuffers

-----------------------------------------------------------------------------
(* Properties of the Configuration (checked under SpecConfig) *)

\* C8 as stated: for every Configuration, Serialize gives 8 bytes and
\* DeserializeConfiguration gives the Configuration back, without an error.
ConfigurationRoundTripAll ==
    /\ ser # <<>> => (~ser[1].panic /\ Len(ser[1].b) = 8)
    /\ (des # <<>> /\ des[1].from = "ser") =>
          (des[1].r.err = "nil" /\ des[1].r.c = <<cfg>>)

\* C8 amended: for every Configuration whose NonceLen fits one byte
\* (0 .. 255), Serialize gives 8 bytes and DeserializeConfiguration gives the
\* Configuration back in all eight fields, without an error; for a larger
\* NonceLen Serialize fails in I2OSP.
ConfigurationRoundTrip ==
    /\ (ser # <<>> /\ cfg.NonceLen \in 0 .. 255) =>
          (~ser[1].panic /\ Len(ser[1].b) = 8)
    /\ (ser # <<>> /\ cfg.NonceLen > 255) => ser[1].panic
    /\ (des # <<>> /\ des[1].from = "ser") =>
          (des[1].r.err = "nil" /\ des[1].r.c = <<cfg>>)

ConfigurationRoundTripWitness ==
    /\ des # <<>> /\ des[1].from = "ser" /\ des[1].r.c = <<cfg>>
    /\ cfg.NonceLen = 255 /\ cfg.KDF # cfg.MAC /\ cfg.OprfGroup # cfg.AKEGroup

\* C9: DeserializeConfiguration returns the invalid-length error and no
\* Configuration for an input that is not 8 bytes long, and a Configuration
\* with a nil error for every 8-byte input.
DeserializeLengthCheck ==
    des # <<>> =>
        /\ Len(des[1].arg) # 8 => (des[1].r.err = errInvalidLength /\ des[1].r.c = <<>>)
        /\ Len(des[1].arg) = 8 => (des[1].r.err = "nil" /\ des[1].r.c # <<>>)

DeserializeLengthCheckWitness ==
    /\ des # <<>> /\ Len(des[1].arg) > 8 /\ des[1].r.err = errInvalidLength

\* C10 as stated: a configuration with an unsupported identifier produces an
\* InvalidConfiguration error and no handle, also when it comes from
\* DeserializeConfiguration.
InvalidConfigurationRejected ==
    /\ (des # <<>> /\ des[1].r.c # <<>> /\ ~Supported(des[1].r.c[1])) =>
          des[1].r.err = "InvalidConfiguration"
    /\ (hnd # <<>> /\ ~Supported(hnd[1].c)) =>
          (hnd[1].outcome # "handle" /\ hnd[1].err = "InvalidConfiguration")

-----------------------------------------------------------------------------
(* Properties of handle construction (checked under SpecConfig) *)

\* C11 as stated: the AKE of a handle built from a Configuration runs in the
\* group named by the Configuration's AKEGroup field, also when AKEGroup
\* differs from OprfGroup.
AKEGroupHonoured ==
    (hnd # <<>> /\ hnd[1].p # <<>>) =>
        hnd[1].p[1].AKEGroup = hnd[1].c.AKEGroup

-----------------------------------------------------------------------------
(* Properties of the wire formats (checked under Spec) *)

KE2Fields(m) ==
    [evaluated |-> m.evaluated, maskingNonce |-> m.maskingNonce,
     masked |-> m.masked, nonceS |-> m.nonceS, epks |-> m.epks,
     einfo |-> m.einfo, mac |-> m.mac]

\* C12 as stated: the length of every serialized message depends only on the
\* configuration; for KE2 it is the length the configuration gives to a KE2
\* without application info.
MessageLengthByConfiguration ==
    /\ net.ke1 # <<>> => Len(SerializeKE1(net.ke1[1])) = KE1Size(P)
    /\ (net.ke2 # <<>> /\ ~net.ke2[1].bad) =>
          Len(SerializeKE2(net.ke2[1])) = KE2Size(P, 0)
    /\ net.ke3 # <<>> => Len(SerializeKE3(net.ke3[1])) = KE3Size(P)

\* C12 amended: deserialize(serialize(m)) = m for KE1, KE2 and KE3; the
\* lengths of KE1 and KE3 depend only on the configuration, and the length of
\* KE2 is the configuration's fixed part plus the length of the application
\* info, which cryptInfo encrypts byte for byte.
MessageRoundTrip ==
    /\ net.ke1 # <<>> =>
          /\ Len(SerializeKE1(net.ke1[1])) = KE1Size(P)
          /\ DeserializeKE1(P, SerializeKE1(net.ke1[1]))
                = [err |-> "nil", m |-> <<net.ke1[1]>>]
    /\ (net.ke2 # <<>> /\ ~net.ke2[1].bad) =>
          /\ Len(SerializeKE2(net.ke2[1])) = KE2Size(P, Len(creds.info))
          /\ DeserializeKE2(P, SerializeKE2(net.ke2[1]))
                = [err |-> "nil", m |-> <<KE2Fields(net.ke2[1])>>]
    /\ net.ke3 # <<>> =>
          /\ Len(SerializeKE3(net.ke3[1])) = KE3Size(P)
          /\ DeserializeKE3(P, SerializeKE3(net.ke3[1]))
                = [err |-> "nil", m |-> <<net.ke3[1]>>]

MessageRoundTripWitness ==
    /\ net.ke3 # <<>> /\ ~net.ke2[1].bad
    /\ conf.Mode = External /\ Len(creds.info) = MaxInfoLen
    /\ Len(SerializeKE2(net.ke2[1])) > KE2Size(P, 0)
    /\ DeserializeKE2(P, SerializeKE2(net.ke2[1])).err = "nil"

-----------------------------------------------------------------------------
(* The operations of registration and login as functions of their inputs *)

\* a scalar that was not supplied (nil)
NilScalar == 0

\* setValues: a supplied scalar and a non-empty supplied nonce are used as
\* they are; rnd is what g.NewScalar().Random() and utils.RandomBytes would
\* return if they were called
setValuesRandom(g, scalar, nonce, nonceLen, rnd) ==
    [s |-> rnd.scalar, n |-> [i \in 1 .. nonceLen |-> B(rnd.byte)]]

setValues(g, scalar, nonce, nonceLen, rnd) ==
    [s |-> IF scalar # NilScalar THEN scalar ELSE rnd.scalar,
     n |-> IF Len(nonce) = 0 THEN [i \in 1 .. nonceLen |-> B(rnd.byte)] ELSE nonce]

\* client.RegistrationInit
RegistrationRequestOf(pwd, blind) == Blind(blind, pwd)

\* server.RegistrationResponse
RegistrationResponseOf(seed, credentialIdentifier, pks, request) ==
    [data |-> Evaluate(DeriveKeyPair(seed, credentialIdentifier), request),
     pks |-> pks]

\* client.RegistrationFinalize: the upload and the export key
RegistrationUploadOf(p, mode, pwd, blind, envelopeNonce, response, idu, ids, skU) ==
    Let(RandomizedPwd(p, Unblind(blind, pwd, response.data)), LAMBDA rpwd :
        CreateEnvelope(p, mode, rpwd, envelopeNonce, response.pks, idu, ids, skU))

\* the ClientRecord the server stores for an upload
ClientRecordOf(credentialIdentifier, idu, upload) ==
    [CredentialIdentifier |-> credentialIdentifier, ClientIdentity |-> idu,
     pku |-> upload.pku, maskingKey |-> upload.maskingKey,
     envelope |-> upload.envelope]

\* client.Init
KE1Of(p, pwd, blind, esk, nonceU) ==
    [blinded |-> Blind(blind, pwd), nonceU |-> nonceU,
     epku |-> SerializePoint(Mult(p.AKEGroup, Base, esk))]

\* the credential response for a record, under the server's long-term state
CredentialResponseOf(p, seed, pks, rec, blinded, maskingNonce) ==
    [evaluated |-> Evaluate(DeriveKeyPair(seed, rec.CredentialIdentifier), blinded),
     maskingNonce |-> maskingNonce,
     masked |-> Xor(CredentialResponsePad(p, rec.maskingKey, maskingNonce),
                    pks \o rec.envelope)]

NoResponse ==
    [err |-> "InvalidEncoding", ke2 |-> <<>>, SessionSecret |-> <<>>,
     ClientMac |-> <<>>, written |-> <<>>]

\* server.Init: KE2 and what the handle keeps; written is the content of the
\* handle's Hash when the call starts
ResponseOf(p, seed, sk, pks, rec, m, esk, nonceS, maskingNonce, ids, info, written) ==
    IF ~IsElement(m.blinded) THEN [NoResponse EXCEPT !.written = written]
    ELSE
    Let(CredentialResponseOf(p, seed, pks, rec, m.blinded, maskingNonce), LAMBDA credResp :
    Let(SerializePoint(Mult(p.AKEGroup, Base, esk)), LAMBDA epks :
    Let(core3DH(server, p, written, esk, sk, m.epku, rec.pku, epks,
                rec.ClientIdentity, ids, nonceS,
                SerializeCredentialResponse(credResp), info, SerializeKE1(m)), LAMBDA r :
        IF r.err # "nil" THEN [NoResponse EXCEPT !.written = written]
        ELSE [err |-> "nil",
              ke2 |-> <<[evaluated |-> credResp.evaluated,
                         maskingNonce |-> credResp.maskingNonce,
                         masked |-> credResp.masked,
                         nonceS |-> nonceS, epks |-> epks,
                         einfo |-> r.info, mac |-> r.serverMac]>>,
              SessionSecret |-> r.sessionSecret,
              ClientMac |-> r.clientMac,
              written |-> r.written])))

NoFinish(e, written) ==
    [err |-> e, ke3 |-> <<>>, SessionSecret |-> <<>>, exportKey |-> <<>>,
     written |-> written]

\* what client.Finish does once the envelope is open
FinishAKE(p, env, clear, esk, ke1, m, idu, ids, written) ==
    Let(core3DH(client, p, written, esk, env.sk, m.epks,
                Prefix(clear, PointLen(p.AKEGroup)), m.epks, idu, ids, m.nonceS,
                SerializeCredentialResponse(m), m.einfo, SerializeKE1(ke1)), LAMBDA r :
        IF r.err # "nil" THEN NoFinish("InvalidEncoding", written)
        ELSE IF r.serverMac # m.mac THEN NoFinish("InvalidCredentials", r.written)
        ELSE [err |-> "nil", ke3 |-> <<[mac |-> r.clientMac]>>,
              SessionSecret |-> r.sessionSecret, exportKey |-> env.exportKey,
              written |-> r.written])

\* client.Finish: KE3, the session key and the export key
FinishOf(p, mode, pwd, blind, esk, ke1, m, idu, ids, written) ==
    IF ~IsElement(m.evaluated) THEN NoFinish("InvalidEncoding", written)
    ELSE
    Let(RandomizedPwd(p, Unblind(blind, pwd, m.evaluated)), LAMBDA rpwd :
    Let(Xor(CredentialResponsePad(p, MaskingKey(p, rpwd), m.maskingNonce), m.masked), LAMBDA clear :
    Let(OpenEnvelope(p, mode, rpwd, Suffix(clear, PointLen(p.AKEGroup)),
                     Prefix(clear, PointLen(p.AKEGroup)), idu, ids), LAMBDA env :
        IF env.err # "nil" THEN NoFinish(env.err, written)
        ELSE FinishAKE(p, env, clear, esk, ke1, m, idu, ids, written))))

-----------------------------------------------------------------------------
(* Two runs of registration and login on the same inputs *)

Runs == {1, 2}

\* the values a run can be given: blinds, nonces, ephemeral scalars
Injected ==
    {"blind", "envelope_nonce", "masking_nonce", "client_nonce",
     "client_keyshare", "server_nonce", "server_keyshare"}

\* what the random source can return: a scalar and the byte of a nonce
RandomSource == { [scalar |-> 3, byte |-> 41], [scalar |-> 4, byte |-> 42] }

\* an injected value, or nothing when the caller leaves it out
Given(name, value, nothing) == IF name \in det.missing THEN nothing ELSE value

DetP == toInternal(det.conf)

NoOutputs ==
    [pc |-> "start", blind |-> 0, request |-> <<>>, response |-> <<>>,
     upload |-> <<>>, regExportKey |-> <<>>, client |-> <<>>, server |-> <<>>,
     ke1 |-> <<>>, ke2 |-> <<>>, ke3 |-> <<>>, clientKey |-> <<>>,
     serverKey |-> <<>>, exportKey |-> <<>>, err |-> "nil"]

InitDeterminism ==
    /\ cfg = DefaultConfiguration /\ input = <<>>
    /\ ser = <<>> /\ des = <<>> /\ hnd = <<>>
    /\ conf = NoRun /\ creds = NoRun /\ reg = NoRun /\ cl = NoRun
    /\ sv = NoRun /\ net = NoRun /\ adv = NoRun /\ mem = NoRun
    /\ ses = NoRun /\ dh = NoRun /\ hk = NoRun /\ tx = NoRun
    /\ ci = NoRun /\ dk = NoRun
    /\ \E c \in RunConfigs, pwd \in Passwords,
          missing \in {{}} \cup { {x} : x \in Injected } :
          det = [conf |-> c, pwd |-> pwd, missing |-> missing,
                 idu |-> <<B(11)>>, ids |-> ServerIdentity,
                 info |-> [i \in 1 .. MaxInfoLen |-> B(i)],
                 run |-> [k \in Runs |-> NoOutputs]]

DetRun(k, r) ==
    /\ det' = [det EXCEPT !.run[k] = r]
    /\ UNCHANGED <<cfgVars, runVars, ses, dh, hk, tx, ci, dk>>

\* client.RegistrationInit with the injected blind, or a random one; a run
\* starts when the run before it is over
DetRegistrationInit(k) ==
    /\ det.run[k].pc = "start"
    /\ IF k = 1 THEN TRUE ELSE det.run[k - 1].pc = "done"
    /\ \E rnd \in RandomSource :
       \E blind \in {Given("blind", BlindRegistration, rnd.scalar)} :
          DetRun(k, [det.run[k] EXCEPT !.pc = "request", !.blind = blind,
                        !.request = <<RegistrationRequestOf(det.pwd, blind)>>])

DetRegistrationResponse(k) ==
    /\ det.run[k].pc = "request"
    /\ DetRun(k, [det.run[k] EXCEPT !.pc = "response",
                     !.response = <<RegistrationResponseOf(OprfSeed,
                                       CredentialIdentifier, ServerPublicKey(DetP),
                                       det.run[k].request[1])>>])

\* client.RegistrationFinalize with Credentials.TestEnvNonce, or a random nonce
DetRegistrationFinalize(k) ==
    /\ det.run[k].pc = "response"
    /\ \E rnd \in RandomSource :
       \E nonce \in {Given("envelope_nonce", EnvelopeNonce(DetP), Nonce(DetP, rnd.byte))} :
       \E u \in {RegistrationUploadOf(DetP, det.conf.Mode, det.pwd, det.run[k].blind,
                                      nonce, det.run[k].response[1], det.idu,
                                      det.ids, ClientPrivateKey)} :
          DetRun(k, [det.run[k] EXCEPT !.pc = "registered",
                        !.upload = <<ClientRecordOf(CredentialIdentifier, det.idu, u)>>,
                        !.regExportKey = u.exportKey])

\* client.Ake.SetValues, then client.Init
DetClientInit(k) ==
    /\ det.run[k].pc = "registered"
    /\ \E rnd \in RandomSource :
       \E v \in {setValues(DetP.AKEGroup,
                           Given("client_keyshare", 2, NilScalar),
                           Given("client_nonce", ClientNonce(DetP), <<>>),
                           DetP.NonceLen, rnd)},
          blind \in {Given("blind", BlindLogin, rnd.scalar)} :
          DetRun(k, [det.run[k] EXCEPT !.pc = "ke1", !.blind = blind,
                        !.client = <<v @@ [offered |-> rnd]>>,
                        !.ke1 = <<KE1Of(DetP, det.pwd, blind, v.s, v.n)>>])

\* server.Ake.SetValues, then server.Init with ClientRecord.TestMaskNonce
DetServerInit(k) ==
    /\ det.run[k].pc = "ke1"
    /\ \E rnd \in RandomSource :
       \E v \in {setValues(DetP.AKEGroup,
                           Given("server_keyshare", 5, NilScalar),
                           Given("server_nonce", ServerNonce(DetP), <<>>),
                           DetP.NonceLen, rnd)},
          mn \in {Given("masking_nonce", MaskingNonce(DetP), Nonce(DetP, rnd.byte))} :
       \E r \in {ResponseOf(DetP, OprfSeed, ServerPrivateKey, ServerPublicKey(DetP),
                            det.run[k].upload[1], det.run[k].ke1[1], v.s, v.n, mn,
                            det.ids, det.info, <<>>)} :
          DetRun(k, [det.run[k] EXCEPT
                        !.pc = IF r.err = "nil" THEN "ke2" ELSE "done",
                        !.server = <<v @@ [offered |-> rnd]>>,
                        !.ke2 = r.ke2, !.serverKey = r.SessionSecret, !.err = r.err])

\* client.Finish
DetClientFinish(k) ==
    /\ det.run[k].pc = "ke2"
    /\ \E r \in {FinishOf(DetP, det.conf.Mode, det.pwd, det.run[k].blind,
                          det.run[k].client[1].s, det.run[k].ke1[1],
                          det.run[k].ke2[1], det.idu, det.ids, <<>>)} :
          DetRun(k, [det.run[k] EXCEPT !.pc = "done", !.ke3 = r.ke3,
                        !.clientKey = r.SessionSecret, !.exportKey = r.exportKey,
                        !.err = r.err])

NextDeterminism ==
    \E k \in Runs :
        \/ DetRegistrationInit(k)
        \/ DetRegistrationResponse(k)
        \/ DetRegistrationFinalize(k)
        \/ DetClientInit(k)
        \/ DetServerInit(k)
        \/ DetClientFinish(k)

SpecDeterminism == InitDeterminism /\ [][NextDeterminism]_vars

-----------------------------------------------------------------------------
(* Properties of two runs on the same inputs (checked under SpecDeterminism) *)

RunOutputs ==
    {"request", "response", "upload", "regExportKey", "ke1", "ke2", "ke3",
     "clientKey", "serverKey", "exportKey"}

-----------------------------------------------------------------------------
(* The key exchange on its own: ikm on every pair of key pairs *)

AKEGroups == {RistrettoSha512, P256Sha256}

PublicKey(g, s) == SerializePoint(Mult(g, Base, s))

InitKeys ==
    /\ cfg = DefaultConfiguration /\ input = <<>>
    /\ ser = <<>> /\ des = <<>> /\ hnd = <<>>
    /\ conf = NoRun /\ creds = NoRun /\ reg = NoRun /\ cl = NoRun
    /\ sv = NoRun /\ net = NoRun /\ adv = NoRun /\ mem = NoRun
    /\ det = NoRun /\ ses = NoRun /\ hk = NoRun /\ tx = NoRun
    /\ ci = NoRun /\ dk = NoRun
    /\ \E g \in AKEGroups :
       \E skU \in Scalars(g), skS \in Scalars(g), eskU \in Scalars(g),
          eskS \in Scalars(g) :
          dh = [g |-> g, skU |-> skU, skS |-> skS, eskU |-> eskU, eskS |-> eskS,
                client |-> <<>>, server |-> <<>>]

\* ikm(client, g, esk_U, sk_U, epk_S, pk_S)
IkmClient ==
    /\ dh.client = <<>>
    /\ dh' = [dh EXCEPT !.client =
                 <<ikm(client, dh.g, dh.eskU, SerializeScalar(dh.skU),
                       PublicKey(dh.g, dh.eskS), PublicKey(dh.g, dh.skS))>>]
    /\ UNCHANGED <<cfgVars, runVars, det, ses, hk, tx, ci, dk>>

\* ikm(server, g, esk_S, sk_S, epk_U, pk_U)
IkmServer ==
    /\ dh.server = <<>>
    /\ dh' = [dh EXCEPT !.server =
                 <<ikm(server, dh.g, dh.eskS, SerializeScalar(dh.skS),
                       PublicKey(dh.g, dh.eskU), PublicKey(dh.g, dh.skU))>>]
    /\ UNCHANGED <<cfgVars, runVars, det, ses, hk, tx, ci, dk>>

NextKeys ==
    \/ IkmClient
    \/ IkmServer

SpecKeys == InitKeys /\ [][NextKeys]_vars

\* DH(pk, sk) as bytes, pk given serialized
DH(g, pk, s) == SerializePoint(Mult(g, pk[1][2], s))

\* C17: for every pair of long-term key pairs and of ephemeral key pairs, the
\* IKM of the client selector is DH(epk_S, esk_U), DH(pk_S, esk_U),
\* DH(epk_S, sk_U), the IKM of the server selector is DH(epk_U, esk_S),
\* DH(epk_U, sk_S), DH(pk_U, esk_S), and the two are the same bytes.
IkmAgreement ==
    /\ dh.client # <<>> =>
          /\ dh.client[1].err = "nil"
          /\ dh.client[1].ikm =
                DH(dh.g, PublicKey(dh.g, dh.eskS), dh.eskU)
                   \o DH(dh.g, PublicKey(dh.g, dh.skS), dh.eskU)
                   \o DH(dh.g, PublicKey(dh.g, dh.eskS), dh.skU)
    /\ dh.server # <<>> =>
          /\ dh.server[1].err = "nil"
          /\ dh.server[1].ikm =
                DH(dh.g, PublicKey(dh.g, dh.eskU), dh.eskS)
                   \o DH(dh.g, PublicKey(dh.g, dh.eskU), dh.skS)
                   \o DH(dh.g, PublicKey(dh.g, dh.skU), dh.eskS)
    /\ (dh.client # <<>> /\ dh.server # <<>>) =>
          dh.client[1].ikm = dh.server[1].ikm

\* both sides have computed their IKM from four different scalars
IkmAgreementWitness ==
    /\ dh.client # <<>> /\ dh.server # <<>>
    /\ Cardinality({dh.skU, dh.skS, dh.eskU, dh.eskS}) = 4
    /\ Len(dh.client[1].ikm) = 3 * PointLen(dh.g)

-----------------------------------------------------------------------------
(* core3DH on its own: the server's call, then the client's call *)

\* what the client is handed can differ from what the server used
Alterations == {"none", "einfo", "nonce", "response"}

TxP == toInternal(tx.conf)
TxCredentialResponse == <<B(40), B(41), B(42)>>

\* the client's view of a value the server sent
Received(what, value) ==
    IF tx.alter = what /\ value # <<>> THEN [value EXCEPT ![1] = B(255)] ELSE value

InitTranscript ==
    /\ cfg = DefaultConfiguration /\ input = <<>>
    /\ ser = <<>> /\ des = <<>> /\ hnd = <<>>
    /\ conf = NoRun /\ creds = NoRun /\ reg = NoRun /\ cl = NoRun
    /\ sv = NoRun /\ net = NoRun /\ adv = NoRun /\ mem = NoRun
    /\ det = NoRun /\ ses = NoRun /\ dh = NoRun /\ hk = NoRun
    /\ ci = NoRun /\ dk = NoRun
    /\ \E c \in RunConfigs, info \in InfoSet, idu \in ClientIdentities,
          skU \in {4, 6}, eskU \in {2, 5}, eskS \in {1, 5}, alter \in Alterations :
          tx = [conf |-> c, info |-> info, idu |-> idu, ids |-> ServerIdentity,
                skU |-> skU, skS |-> 3, eskU |-> eskU, eskS |-> eskS,
                ke1 |-> SerializeKE1(KE1Of(toInternal(c), 1, BlindLogin, eskU,
                                           ClientNonce(toInternal(c)))),
                alter |-> alter, server |-> <<>>, client |-> <<>>]

\* core3DH with the server selector on a new handle
TxServer ==
    /\ tx.server = <<>>
    /\ \E r \in {core3DH(server, TxP, <<>>, tx.eskS, SerializeScalar(tx.skS),
                         PublicKey(TxP.AKEGroup, tx.eskU),
                         PublicKey(TxP.AKEGroup, tx.skU),
                         PublicKey(TxP.AKEGroup, tx.eskS), tx.idu, tx.ids,
                         ServerNonce(TxP), TxCredentialResponse, tx.info, tx.ke1)} :
          tx' = [tx EXCEPT !.server = <<r>>]
    /\ UNCHANGED <<cfgVars, runVars, det, ses, dh, hk, ci, dk>>

\* core3DH with the client selector on a new handle, on what KE2 carried
TxClient ==
    /\ tx.server # <<>>
    /\ tx.client = <<>>
    /\ \E r \in {core3DH(client, TxP, <<>>, tx.eskU, SerializeScalar(tx.skU),
                         PublicKey(TxP.AKEGroup, tx.eskS),
                         PublicKey(TxP.AKEGroup, tx.skS),
                         PublicKey(TxP.AKEGroup, tx.eskS), tx.idu, tx.ids,
                         Received("nonce", ServerNonce(TxP)),
                         Received("response", TxCredentialResponse),
                         Received("einfo", tx.server[1].info), tx.ke1)} :
          tx' = [tx EXCEPT !.client = <<r>>]
    /\ UNCHANGED <<cfgVars, runVars, det, ses, dh, hk, ci, dk>>

NextTranscript ==
    \/ TxServer
    \/ TxClient

SpecTranscript == InitTranscript /\ [][NextTranscript]_vars

-----------------------------------------------------------------------------
(* The transcript of core3DH (checked under SpecTranscript) *)

\* the first seven items of the transcript, in the order of the specification
TranscriptContext(idu, ke1, ids, credResp, nonceS, epks) ==
    Tag3DH \o EncodeVectorLen(idu, 2) \o ke1 \o EncodeVectorLen(ids, 2)
        \o credResp \o nonceS \o epks

\* what a call absorbed, and what it derived from which digest
TranscriptOrder(p, context, einfo, r) ==
    Let(<<context \o EncodeVector(einfo), HashSum(p.Hash, context)>>, LAMBDA t :
    Let(MAC(p.MAC, r.bufs.serverMacKey, HashSum(p.Hash, t[1])), LAMBDA mac :
        /\ r.err = "nil"
        /\ r.bufs.handshakeSecret =
              expandLabel(p.KDF, r.bufs.prk, TagHandshake, t[2])
        /\ r.sessionSecret = expandLabel(p.KDF, r.bufs.prk, TagSession, t[2])
        /\ r.serverMac = mac
        /\ r.written = t[1] \o mac
        /\ r.clientMac =
              MAC(p.MAC, r.bufs.clientMacKey, HashSum(p.Hash, r.written))))

\* C18: in every run of core3DH, with either selector, the hash has absorbed
\* Tag3DH, Vec2(client_identity), KE1, Vec2(server_identity), the credential
\* response, server_nonce, the server's ephemeral public key, then Vec2(einfo),
\* then server_mac; the handshake secret and the session key come from the
\* digest after the first seven items, the server MAC from the digest after
\* Vec2(einfo), the client MAC from the digest after server_mac.
TranscriptAbsorbOrder ==
    /\ tx.server # <<>> =>
          TranscriptOrder(TxP,
              TranscriptContext(tx.idu, tx.ke1, tx.ids, TxCredentialResponse,
                  ServerNonce(TxP), PublicKey(TxP.AKEGroup, tx.eskS)),
              cryptInfo(TxP, tx.server[1].bufs.handshakeEncryptKey, tx.info),
              tx.server[1])
    /\ tx.client # <<>> =>
          TranscriptOrder(TxP,
              TranscriptContext(tx.idu, tx.ke1, tx.ids,
                  Received("response", TxCredentialResponse),
                  Received("nonce", ServerNonce(TxP)),
                  PublicKey(TxP.AKEGroup, tx.eskS)),
              Received("einfo", tx.server[1].info),
              tx.client[1])

\* both selectors have run, with application info and a client identity
TranscriptAbsorbOrderWitness ==
    /\ tx.server # <<>> /\ tx.client # <<>>
    /\ tx.info # <<>>
    /\ tx.idu # <<>>
    /\ tx.alter = "nonce"

-----------------------------------------------------------------------------
(* The MACs of both sides on the einfo of the server (checked under
   SpecTranscript) *)

\* C19: when the client runs core3DH on the einfo the server's core3DH
\* produced, all other inputs matching, its server_mac and client_mac are
\* those of the server, for every info and for the empty one; both hashes
\* absorbed the encrypted info, not the plaintext.
MacsAgreeOnEinfo ==
    (tx.client # <<>> /\ tx.alter = "none") =>
        /\ tx.client[1].serverMac = tx.server[1].serverMac
        /\ tx.client[1].clientMac = tx.server[1].clientMac
        /\ tx.client[1].sessionSecret = tx.server[1].sessionSecret
        /\ tx.client[1].written = tx.server[1].written
        /\ tx.server[1].info =
              cryptInfo(TxP, tx.server[1].bufs.handshakeEncryptKey, tx.info)
        /\ Len(tx.server[1].info) = Len(tx.info)
        /\ tx.info # <<>> =>
              /\ tx.server[1].info # tx.info
              /\ \A side \in {tx.client[1], tx.server[1]} :
                    SubSeq(side.written,
                           Len(side.written) - Len(side.serverMac) - Len(tx.info) - 1,
                           Len(side.written) - Len(side.serverMac))
                       = EncodeVector(tx.server[1].info)

\* the client has run on the server's output with an empty info
MacsAgreeOnEinfoWitness ==
    /\ tx.client # <<>> /\ tx.alter = "none"
    /\ tx.info = <<>>
    /\ tx.client[1].err = "nil"

-----------------------------------------------------------------------------
(* The labelled expansion on its own: buildLabel on labels, contexts, lengths *)

Labels == {TagHandshake, TagSession, TagMacServer, TagMacClient, TagEncServer}

\* no context, a digest, two digests
Contexts == {<<>>, << <<"D", 1, 2>> >>, << <<"D", 1, 2>>, <<"D", 3, 4>> >>, <<B(0)>>}

OutputLengths == {1, 32, 64, 255, 256, 65535}

InitLabel ==
    /\ cfg = DefaultConfiguration /\ input = <<>>
    /\ ser = <<>> /\ des = <<>> /\ hnd = <<>>
    /\ conf = NoRun /\ creds = NoRun /\ reg = NoRun /\ cl = NoRun
    /\ sv = NoRun /\ net = NoRun /\ adv = NoRun /\ mem = NoRun
    /\ det = NoRun /\ ses = NoRun /\ dh = NoRun /\ tx = NoRun
    /\ ci = NoRun /\ dk = NoRun
    /\ \E label \in Labels, context \in Contexts, length \in OutputLengths :
          hk = [label |-> label, context |-> context, length |-> length,
                info |-> <<>>]

\* expandLabel builds the HKDF info of its call to Expand
BuildLabel ==
    /\ hk.info = <<>>
    /\ hk' = [hk EXCEPT !.info = buildLabel(hk.length, hk.label, hk.context)]
    /\ UNCHANGED <<cfgVars, runVars, det, ses, dh, tx, ci, dk>>

NextLabel == BuildLabel

SpecLabel == InitLabel /\ [][NextLabel]_vars

\* C20 as stated: the HKDF info built for (label, context, length) is
\* Vec1(LabelPrefix followed by label), then Vec1(context), then
\* I2OSP(length, 2).
LabelLengthLast ==
    hk.info # <<>> =>
        hk.info = EncodeVectorLen(LabelPrefix \o hk.label, 1)
                     \o EncodeVectorLen(hk.context, 1)
                     \o Bytes(I2OSP(hk.length, 2))

\* C20, amended: the HKDF info built for (label, context, length) is
\* I2OSP(length, 2), then Vec1(LabelPrefix followed by label), then
\* Vec1(context).
LabelLengthFirst ==
    hk.info # <<>> =>
        /\ Prefix(hk.info, 2) = Bytes(I2OSP(hk.length, 2))
        /\ hk.info[3] = B(Len(LabelPrefix) + Len(hk.label))
        /\ SubSeq(hk.info, 4, 3 + Len(LabelPrefix) + Len(hk.label))
              = LabelPrefix \o hk.label
        /\ Suffix(hk.info, 3 + Len(LabelPrefix) + Len(hk.label))
              = <<B(Len(hk.context))>> \o hk.context

\* the info of a label with a context of two digests and a two-byte length
LabelLengthFirstWitness ==
    /\ hk.info # <<>>
    /\ Len(hk.context) = 2
    /\ hk.length = 256
    /\ hk.label = TagHandshake

-----------------------------------------------------------------------------
(* Login sessions on distinct handles sharing one server *)

NumSessions == 2
Sessions == 1 .. NumSessions

UnknownIdentifier == <<B(14)>>
Identifiers == {CredentialIdentifier, UnknownIdentifier}

SesP == toInternal(ses.conf)
SesClientIdentity == <<B(11)>>
SesInfo == [i \in 1 .. MaxInfoLen |-> B(i)]

\* every handle is built by its own call of toInternal, which allocates a new
\* Hash: the Hash object of the handle of session i on one side
NewHashShared(i, side) == 1
NewHash(i, side) == IF side = client THEN 2 * i - 1 ELSE 2 * i
HashObjects == 1 .. (2 * NumSessions)

\* the values each session is given: key shares and nonces
SesKeyshare(i, side) == IF side = client THEN i ELSE i + 3
SesNonce(p, i, side) == Nonce(p, 30 + NewHash(i, side))

\* a login is tried on the registered or on the unknown identifier, with the
\* password of the first registration (a later registration takes another)
Profiles ==
    {[id |-> CredentialIdentifier, pwd |-> 1],
     [id |-> UnknownIdentifier, pwd |-> 1]}

\* the ClientRecord a registration with pwd leaves for id
RegisteredRecord(p, mode, seed, pks, id, pwd) ==
    ClientRecordOf(id, SesClientIdentity,
        RegistrationUploadOf(p, mode, pwd, BlindRegistration, EnvelopeNonce(p),
            RegistrationResponseOf(seed, id, pks,
                RegistrationRequestOf(pwd, BlindRegistration)),
            SesClientIdentity, ServerIdentity, ClientPrivateKey))

\* the masking key of an identifier without a record
FakeMaskingKey(p, seed, id) ==
    Expand(p.KDF, <<B(seed)>>, id \o LabelMaskingKey, HashSize(p.KDF))

\* a made-up record that has no envelope
FakeRecordNoEnvelope(p, seed, id) ==
    [CredentialIdentifier |-> id, ClientIdentity |-> id,
     pku |-> PublicKey(p.AKEGroup, HashToScalar(p.AKEGroup, <<B(seed)>> \o id)),
     maskingKey |-> FakeMaskingKey(p, seed, id),
     envelope |-> <<>>]

\* the record the server uses for an identifier without a record: a public
\* key and a masking key determined by oprf_seed and the identifier, and an
\* envelope of the configured size
FakeRecord(p, seed, id) ==
    [CredentialIdentifier |-> id, ClientIdentity |-> id,
     pku |-> PublicKey(p.AKEGroup, HashToScalar(p.AKEGroup, <<B(seed)>> \o id)),
     maskingKey |-> FakeMaskingKey(p, seed, id),
     envelope |-> [i \in 1 .. p.EnvelopeSize |-> B(0)]]

Lookup(p, lt, id) ==
    IF lt.store[id] # <<>> THEN lt.store[id][1] ELSE FakeRecord(p, lt.oprfSeed, id)

\* what the caller's long-term values hold after a call of the server handle:
\* the handle keeps the slices it was given and only reads them
LongTermKeyCleared(lt) == [lt EXCEPT !.sk = <<>>]
LongTermAfter(lt) == lt

NoAlone ==
    [ke2 |-> <<>>, serverKey |-> <<>>, ClientMac |-> <<>>, swritten |-> <<>>,
     ke3 |-> <<>>, clientKey |-> <<>>, cwritten |-> <<>>, cerr |-> "nil"]

NoSession ==
    [cpc |-> "new", spc |-> "new", id |-> <<>>, pwd |-> 0, known |-> FALSE,
     ke1 |-> <<>>, ke2 |-> <<>>, ke3 |-> <<>>, clientKey |-> <<>>,
     serverKey |-> <<>>, ClientMac |-> <<>>, cerr |-> "nil", serr |-> "nil",
     alone |-> NoAlone]

InitSessions ==
    /\ cfg = DefaultConfiguration /\ input = <<>>
    /\ ser = <<>> /\ des = <<>> /\ hnd = <<>>
    /\ conf = NoRun /\ creds = NoRun /\ reg = NoRun /\ cl = NoRun
    /\ sv = NoRun /\ net = NoRun /\ adv = NoRun /\ mem = NoRun
    /\ det = NoRun /\ dh = NoRun /\ hk = NoRun /\ tx = NoRun
    /\ ci = NoRun /\ dk = NoRun
    /\ \E c \in RunConfigs :
          ses = [conf |-> c,
                 lt |-> [oprfSeed |-> OprfSeed, sk |-> ServerPrivateKey,
                         pk |-> ServerPublicKey(toInternal(c)),
                         store |-> [id \in Identifiers |->
                             IF id = CredentialIdentifier
                             THEN <<RegisteredRecord(toInternal(c), c.Mode, OprfSeed,
                                        ServerPublicKey(toInternal(c)), id, 1)>>
                             ELSE <<>>]],
                 regs |-> [id \in Identifiers |-> 0],
                 hash |-> [o \in HashObjects |-> <<>>],
                 s |-> [i \in Sessions |-> NoSession]]

SesStep(next) ==
    /\ ses' = next
    /\ UNCHANGED <<cfgVars, runVars, det, dh, hk, tx, ci, dk>>

\* a registration that replaces the record of the registered identifier
SesRegistration ==
    /\ ses.regs[CredentialIdentifier] = 0
    /\ \E rec \in {RegisteredRecord(SesP, ses.conf.Mode, ses.lt.oprfSeed, ses.lt.pk,
                                    CredentialIdentifier, NumPasswords)} :
          SesStep([ses EXCEPT !.lt.store[CredentialIdentifier] = <<rec>>,
                              !.regs[CredentialIdentifier] = @ + 1])

\* client.Init on the client handle of session i
SesClientInit(i) ==
    /\ ses.s[i].cpc = "new"
    /\ \E prof \in Profiles :
          SesStep([ses EXCEPT !.s[i] =
              [@ EXCEPT !.cpc = "ke1", !.id = prof.id, !.pwd = prof.pwd,
                        !.ke1 = <<KE1Of(SesP, prof.pwd, BlindLogin,
                                        SesKeyshare(i, client),
                                        SesNonce(SesP, i, client))>>]])

\* server.Init on the server handle of session i, with the record of the
\* identifier or the one made up for an unknown identifier
SesResponse(i, rec, written) ==
    ResponseOf(SesP, ses.lt.oprfSeed, ses.lt.sk, ses.lt.pk, rec, ses.s[i].ke1[1],
               SesKeyshare(i, server), SesNonce(SesP, i, server),
               MaskingNonce(SesP), ServerIdentity, SesInfo, written)

SesServerInit(i) ==
    /\ ses.s[i].spc = "new"
    /\ ses.s[i].ke1 # <<>>
    /\ \E h \in {NewHash(i, server)}, rec \in {Lookup(SesP, ses.lt, ses.s[i].id)} :
       \E r \in {SesResponse(i, rec, ses.hash[h])} :
       \E a \in {IF ses.hash[h] = <<>> THEN r ELSE SesResponse(i, rec, <<>>)} :
          SesStep([ses EXCEPT
              !.lt = LongTermAfter(@),
              !.hash[h] = r.written,
              !.s[i] = [@ EXCEPT
                  !.spc = IF r.err = "nil" THEN "ke2" ELSE "failed",
                  !.known = ses.lt.store[ses.s[i].id] # <<>>,
                  !.ke2 = r.ke2, !.serverKey = r.SessionSecret,
                  !.ClientMac = r.ClientMac, !.serr = r.err,
                  !.alone = [@ EXCEPT !.ke2 = a.ke2, !.serverKey = a.SessionSecret,
                                      !.ClientMac = a.ClientMac,
                                      !.swritten = a.written]]])

\* client.Finish on the client handle of session i
SesFinish(i, written) ==
    FinishOf(SesP, ses.conf.Mode, ses.s[i].pwd, BlindLogin, SesKeyshare(i, client),
             ses.s[i].ke1[1], ses.s[i].ke2[1], SesClientIdentity, ServerIdentity,
             written)

SesClientFinish(i) ==
    /\ ses.s[i].cpc = "ke1"
    /\ ses.s[i].ke2 # <<>>
    /\ \E h \in {NewHash(i, client)} :
       \E r \in {SesFinish(i, ses.hash[h])} :
       \E a \in {IF ses.hash[h] = <<>> THEN r ELSE SesFinish(i, <<>>)} :
          SesStep([ses EXCEPT
              !.hash[h] = r.written,
              !.s[i] = [@ EXCEPT
                  !.cpc = IF r.err = "nil" THEN "done" ELSE "failed",
                  !.ke3 = r.ke3, !.clientKey = r.SessionSecret, !.cerr = r.err,
                  !.alone = [@ EXCEPT !.ke3 = a.ke3, !.clientKey = a.SessionSecret,
                                      !.cwritten = a.written, !.cerr = a.err]]])

\* server.Finish on the KE3 of the client, or on a KE3 made up by a client
\* that could not finish
SesServerFinish(i) ==
    /\ ses.s[i].spc = "ke2"
    /\ ses.s[i].cpc \in {"done", "failed"}
    /\ \E m \in {IF ses.s[i].ke3 # <<>> THEN ses.s[i].ke3[1] ELSE [mac |-> <<B(255)>>]} :
       \E e \in {finalize(ses.s[i].spc, ses.s[i].ClientMac, m.mac)} :
          SesStep([ses EXCEPT
              !.lt = LongTermAfter(@),
              !.s[i] = [@ EXCEPT !.spc = IF e = "nil" THEN "done" ELSE "failed",
                                 !.serr = FinalizeError(e)]])

NextSessions ==
    \/ SesRegistration
    \/ \E i \in Sessions :
          \/ SesClientInit(i)
          \/ SesServerInit(i)
          \/ SesClientFinish(i)
          \/ SesServerFinish(i)

SpecSessions == InitSessions /\ [][NextSessions]_vars

-----------------------------------------------------------------------------
(* Properties of concurrent login sessions (checked under SpecSessions) *)

\* C14: a step of a server login (Init producing KE2, Finish on KE3), ending
\* well or not, leaves the ClientRecord store and the server's oprf_seed and
\* static key pair as they were; the key material never changes, and the
\* record of an identifier changes only in a registration for that identifier.
LoginFrame ==
    [][/\ (\E i \in Sessions : ses'.s[i].spc # ses.s[i].spc) => ses'.lt = ses.lt
       /\ ses'.lt.oprfSeed = ses.lt.oprfSeed
       /\ ses'.lt.sk = ses.lt.sk
       /\ ses'.lt.pk = ses.lt.pk
       /\ \A id \in Identifiers :
             ses'.lt.store[id] # ses.lt.store[id] =>
                /\ ses'.regs[id] = ses.regs[id] + 1
                /\ \A other \in Identifiers \ {id} : ses'.regs[other] = ses.regs[other]
      ]_vars

\* one login has ended well and another has failed at the server, and the
\* registered identifier has been registered anew
LoginFrameWitness ==
    /\ \E i, j \in Sessions : ses.s[i].spc = "done" /\ ses.s[j].spc = "failed"
    /\ ses.regs[CredentialIdentifier] = 1

\* C15: login sessions on distinct handles made from one Configuration and
\* sharing the server's long-term state, interleaved step by step, each end
\* with the transcript, the MACs and the session key of the same session run
\* on handles nothing else has used.
SessionsIndependent ==
    \A i \in Sessions :
          /\ ses.s[i].spc # "new" =>
                /\ ses.s[i].ke2 = ses.s[i].alone.ke2
                /\ ses.s[i].serverKey = ses.s[i].alone.serverKey
                /\ ses.s[i].ClientMac = ses.s[i].alone.ClientMac
                /\ ses.hash[NewHash(i, server)] = ses.s[i].alone.swritten
          /\ ses.s[i].cpc \in {"done", "failed"} =>
                /\ ses.s[i].ke3 = ses.s[i].alone.ke3
                /\ ses.s[i].clientKey = ses.s[i].alone.clientKey
                /\ ses.s[i].cerr = ses.s[i].alone.cerr
                /\ ses.hash[NewHash(i, client)] = ses.s[i].alone.cwritten

\* two sessions are in flight at once: one client has finished before its
\* server has, the other is still waiting for nothing but its own KE2 check
SessionsIndependentWitness ==
    \E i, j \in Sessions :
        /\ i # j
        /\ ses.s[i].cpc = "done" /\ ses.s[i].spc = "ke2"
        /\ ses.s[j].cpc = "ke1" /\ ses.s[j].spc = "ke2"

\* the length of each field of a KE2
KE2Layout(m) == [f \in DOMAIN m |-> Len(m[f])]

\* C16: for an identifier without a record the server still returns a KE2; it
\* is well formed, its masked response is under the masking key derived from
\* oprf_seed and the identifier, and it has the length and the field layout of
\* the KE2 of a registered identifier.
UnknownIdentifierKE2 ==
    /\ \A i \in Sessions :
          /\ ses.s[i].spc # "new" =>
                /\ ses.s[i].serr # "InvalidEncoding"
                /\ ses.s[i].ke2 # <<>>
          /\ ses.s[i].ke2 # <<>> =>
                /\ Len(SerializeKE2(ses.s[i].ke2[1])) = KE2Size(SesP, Len(SesInfo))
                /\ DeserializeKE2(SesP, SerializeKE2(ses.s[i].ke2[1]))
                      = [err |-> "nil", m |-> ses.s[i].ke2]
          /\ (ses.s[i].ke2 # <<>> /\ ~ses.s[i].known) =>
                Xor(CredentialResponsePad(SesP,
                        FakeMaskingKey(SesP, ses.lt.oprfSeed, ses.s[i].id),
                        ses.s[i].ke2[1].maskingNonce),
                    ses.s[i].ke2[1].masked)
                   = ses.lt.pk \o [k \in 1 .. SesP.EnvelopeSize |-> B(0)]
    /\ \A i, j \in Sessions :
          (ses.s[i].ke2 # <<>> /\ ses.s[j].ke2 # <<>>) =>
              KE2Layout(ses.s[i].ke2[1]) = KE2Layout(ses.s[j].ke2[1])

\* the server has answered a login on the registered identifier and one on
\* the unknown identifier
UnknownIdentifierKE2Witness ==
    \E i, j \in Sessions :
        /\ ses.s[i].ke2 # <<>> /\ ses.s[i].known
        /\ ses.s[j].ke2 # <<>> /\ ~ses.s[j].known
        /\ ses.s[j].id = UnknownIdentifier

-----------------------------------------------------------------------------
(* cryptInfo on its own: the server encrypts info, the client decrypts einfo *)

CiConfigs ==
    { Configuration(RistrettoSha512, kdf, 2, 2, 2, Internal, RistrettoSha512, 2) :
        kdf \in {1, 2} }

\* handshake encryption keys: digests, as deriveKeys returns them
CiKeys == {<< <<"D", 1, 2>> >>, << <<"D", 3, 4>> >>, << <<"D", 1, 4>> >>}

\* every info of up to MaxInfoLen bytes over two byte values
CiInfos == UNION { [1 .. n -> {B(1), B(2)}] : n \in 0 .. MaxInfoLen }

NoEinfo == <<"none">>

InitCryptInfo ==
    /\ cfg = DefaultConfiguration /\ input = <<>>
    /\ ser = <<>> /\ des = <<>> /\ hnd = <<>>
    /\ conf = NoRun /\ creds = NoRun /\ reg = NoRun /\ cl = NoRun
    /\ sv = NoRun /\ net = NoRun /\ adv = NoRun /\ mem = NoRun
    /\ det = NoRun /\ ses = NoRun /\ dh = NoRun /\ hk = NoRun /\ tx = NoRun
    /\ dk = NoRun
    /\ \E c \in CiConfigs, key \in CiKeys, info \in CiInfos :
          ci = [p |-> toInternal(c), key |-> key, info |-> info,
                einfo |-> NoEinfo, clientKey |-> <<>>, clientInfo |-> NoEinfo]

\* the server's core3DH: st.info = cryptInfo(p, keys.handshakeEncryptKey, info)
CiServer ==
    /\ ci.einfo = NoEinfo
    /\ ci' = [ci EXCEPT !.einfo = cryptInfo(ci.p, ci.key, ci.info)]
    /\ UNCHANGED <<cfgVars, runVars, det, ses, dh, hk, tx, dk>>

\* the client's core3DH: the same line on the einfo of KE2, under the
\* handshake encryption key the client derived
CiClient ==
    /\ ci.einfo # NoEinfo
    /\ ci.clientInfo = NoEinfo
    /\ \E key \in CiKeys :
          ci' = [ci EXCEPT !.clientKey = key,
                           !.clientInfo = cryptInfo(ci.p, key, ci.einfo)]
    /\ UNCHANGED <<cfgVars, runVars, det, ses, dh, hk, tx, dk>>

NextCryptInfo == CiServer \/ CiClient

SpecCryptInfo == InitCryptInfo /\ [][NextCryptInfo]_vars

\* C21: cryptInfo returns an output of exactly the length of its info input,
\* a zero-length output for a zero-length info, and applied again under the
\* same key it gives back the info: the client recovers the server's
\* plaintext info from einfo.
CryptInfoInvolution ==
    /\ ci.einfo # NoEinfo =>
          /\ Len(ci.einfo) = Len(ci.info)
          /\ (Len(ci.info) = 0 => ci.einfo = <<>>)
    /\ ci.clientInfo # NoEinfo =>
          /\ Len(ci.clientInfo) = Len(ci.einfo)
          /\ (ci.clientKey = ci.key => ci.clientInfo = ci.info)

\* an info of MaxInfoLen bytes went through both applications under one key
\* and the einfo in between was not the plaintext
CryptInfoInvolutionWitness ==
    /\ ci.clientInfo # NoEinfo
    /\ ci.clientKey = ci.key
    /\ Len(ci.info) = MaxInfoLen
    /\ ci.einfo # ci.info
    /\ ci.clientInfo = ci.info

-----------------------------------------------------------------------------
(* core3DH on keys that may not decode *)

DkConfigs ==
    { Configuration(g, 2, 2, 2, 2, Internal, g, 2) : g \in AKEGroups }

\* a secret key: two scalars, no bytes, a scalar out of range, an element
DkSecretKeys(g) ==
    {SerializeScalar(3), SerializeScalar(4), <<>>, SerializeScalar(Order(g)),
     SerializePoint(3)}

\* a peer key: two elements, no bytes, the identity, a scalar
DkPeerKeys(g) ==
    {PublicKey(g, 2), PublicKey(g, 3), <<>>, SerializePoint(0), SerializeScalar(2)}

\* what the Hash of the handle has absorbed before the call
DkWritten == {<<>>, <<B(77)>>}

DkCredentialResponse == <<B(40), B(41), B(42)>>

InitDecode ==
    /\ cfg = DefaultConfiguration /\ input = <<>>
    /\ ser = <<>> /\ des = <<>> /\ hnd = <<>>
    /\ conf = NoRun /\ creds = NoRun /\ reg = NoRun /\ cl = NoRun
    /\ sv = NoRun /\ net = NoRun /\ adv = NoRun /\ mem = NoRun
    /\ det = NoRun /\ ses = NoRun /\ dh = NoRun /\ hk = NoRun /\ tx = NoRun
    /\ ci = NoRun
    /\ \E c \in DkConfigs, s \in {client, server}, written \in DkWritten :
       \E secretKey \in DkSecretKeys(toInternal(c).AKEGroup),
          peerEpk \in DkPeerKeys(toInternal(c).AKEGroup),
          peerPublicKey \in DkPeerKeys(toInternal(c).AKEGroup) :
          dk = [p |-> toInternal(c), s |-> s, written |-> written,
                secretKey |-> secretKey, peerEpk |-> peerEpk,
                peerPublicKey |-> peerPublicKey, out |-> <<>>]

\* one call of core3DH on the keys handed in
DkCore3DH ==
    /\ dk.out = <<>>
    /\ \E r \in {core3DH(dk.s, dk.p, dk.written, 5, dk.secretKey, dk.peerEpk,
                         dk.peerPublicKey, PublicKey(dk.p.AKEGroup, 1),
                         <<B(11)>>, ServerIdentity, ServerNonce(dk.p),
                         DkCredentialResponse, <<B(1)>>,
                         SerializeKE1(KE1Of(dk.p, 1, BlindLogin, 2,
                                            ClientNonce(dk.p))))} :
          dk' = [dk EXCEPT !.out = <<r>>]
    /\ UNCHANGED <<cfgVars, runVars, det, ses, dh, hk, tx, ci>>

NextDecode == DkCore3DH

SpecDecode == InitDecode /\ [][NextDecode]_vars

\* the error of the first key that does not decode, "nil" when all three do
DkFirstFailure ==
    IF ~DecodeScalar(dk.p.AKEGroup, dk.secretKey).ok
    THEN "decoding secret key"
    ELSE IF ~DecodePoint(dk.p.AKEGroup, dk.peerEpk).ok
    THEN "decoding peer ephemeral public key"
    ELSE IF ~DecodePoint(dk.p.AKEGroup, dk.peerPublicKey).ok
    THEN "decoding peer public key"
    ELSE "nil"

\* C22: when the secret key, the peer ephemeral public key or the peer public
\* key given to core3DH fails to decode, core3DH returns an error with a nil
\* output and a nil session secret, has absorbed nothing into the transcript
\* hash and has computed no MAC; the first failing decode (secret key, then
\* ephemeral key, then public key) decides the error.
DecodeFailureLeavesNothing ==
    (dk.out # <<>> /\ DkFirstFailure # "nil") =>
        /\ dk.out[1].err = DkFirstFailure
        /\ dk.out[1].info = <<>>
        /\ dk.out[1].serverMac = <<>>
        /\ dk.out[1].clientMac = <<>>
        /\ dk.out[1].sessionSecret = <<>>
        /\ dk.out[1].written = dk.written
        /\ dk.out[1].bufs = NoBuffers

\* the secret key decodes, neither peer key does, the hash had absorbed
\* bytes before: the error names the ephemeral key
DecodeFailureLeavesNothingWitness ==
    /\ dk.out # <<>>
    /\ DecodeScalar(dk.p.AKEGroup, dk.secretKey).ok
    /\ ~DecodePoint(dk.p.AKEGroup, dk.peerEpk).ok
    /\ ~DecodePoint(dk.p.AKEGroup, dk.peerPublicKey).ok
    /\ dk.written # <<>>
    /\ dk.out[1].err = "decoding peer ephemeral public key"
    /\ dk.out[1].written = dk.written

====
